---- MODULE Spec2Model ----
(***************************************************************************)
(* A model of the pycloud discrete-event simulator: the simulation driver  *)
(* (module/__init__.py), the first-fit placement (policy/vmp.py), the      *)
(* space-shared hypervisor (policy/vmm.py), the time-shared OS             *)
(* (policy/os.py), the apps and VMs (model/__init__.py) and the round-robin *)
(* control plane (policy/control_plane.py).  The virtual clock (cloca) and *)
(* the event bus (evque) are libraries outside the repository; they are    *)
(* modelled as spec.md sections 4.1 and 4.2 describe them.                 *)
(***************************************************************************)
EXTENDS Integers, Sequences, FiniteSets, TLC

\* ------------------------------------------------------------------ bounds
\* Longest request list a scenario of Spec holds.
MaxReq == 2
\* Latest arrival time of a request in a scenario of Spec.
MaxArrival == 1
\* The clock value at which the model stops taking steps.
MaxTime == 8
\* The number of calls into the cluster (apply, scale, delete, manage, a container
\* stopping) a behaviour of SpecCP makes.
MaxCalls == 4
\* The largest replica count passed to scale and delete.
MaxReplicas == 2

\* ------------------------------------------------------------------ state
VARIABLES
  scn,        \* the scenario the simulation was built from (never changes)
  now,        \* cloca: the virtual clock
  bus,        \* evque: the events published and not yet delivered, in publish order
  counts,     \* Tracker._counts
  vmm,        \* per host: the VmmSpaceShared fields
  vm_pm,      \* Vmp._vm_pm: dict vm -> host
  vm_state,   \* Vm.state per VM
  os,         \* per VM: Os._running_apps and Os._stopped_apps (lists of app ids)
  apps,       \* per app id: kind, LENGTH, EXPIRATION, _remained, __has_resumed_once
  pc,         \* where Simulation.run is: "loop", "run_until", "returned", "raised"
  raised,     \* the exception that ended the run: <<>> or <<kind, vm>>
  last,       \* what the last delivery or step did (observed by the properties)
  alloc_log,  \* Vmp.allocate's last call: per input VM, the VMM states seen and the host
  published,  \* the number of events published so far (numbers the events)
  cp          \* the control plane of the cluster (ControlPlaneRoundRobin fields)

vars == <<scn, now, bus, counts, vmm, vm_pm, vm_state, os, apps, pc, raised, last,
          alloc_log, published, cp>>

\* ------------------------------------------------------- python built-ins
Range(s) == {s[i] : i \in DOMAIN s}

RECURSIVE SumSeq(_)
SumSeq(s) == IF s = <<>> THEN 0 ELSE Head(s) + SumSeq(Tail(s))

MinOf(S) == CHOOSE x \in S : \A y \in S : x <= y

\* Iteration over a set of small ints: CPython visits them in ascending order.
RECURSIVE Ascending(_)
Ascending(S) == IF S = {} THEN <<>> ELSE <<MinOf(S)>> \o Ascending(S \ {MinOf(S)})

\* d[k] = v and del d[k] on a dict.
DictSet(d, k, v) == [x \in (DOMAIN d) \cup {k} |-> IF x = k THEN v ELSE d[x]]
DictDel(d, k) == [x \in (DOMAIN d) \ {k} |-> d[x]]

\* list.remove(x): drops the first occurrence of x.
RECURSIVE ListRemove(_, _)
ListRemove(s, x) ==
  IF s = <<>> THEN <<>>
  ELSE IF Head(s) = x THEN Tail(s)
  ELSE <<Head(s)>> \o ListRemove(Tail(s), x)

\* The number of times x occurs in list s.
Count(s, x) == Cardinality({i \in DOMAIN s : s[i] = x})

\* ----------------------------------------------------------- the scenario
\* scn.hosts : list of [CPU : list of core frequencies, RAM, GPU : list of <<units, blocks>>]
\* scn.vms   : per VM id [CPU, RAM, GPU], GPU = <<>> for None, <<units, blocks>> otherwise
\* scn.reqs  : User.REQUESTS, list of [ARRIVAL, VM, REQUIRED, IGNORED]
\* scn.res   : CLOCK_RESOLUTION
HOSTS == DOMAIN scn.hosts
VMS == DOMAIN scn.vms
Vm(v) == scn.vms[v]

\* ------------------------------------------------------------- exceptions
NoExc == <<>>
Exc(kind, v) == <<kind, v>>

\* ------------------------------------------------------------------ evque
\* Topics Simulation.__post_init__ subscribes to.
LogTopics == {"app.start", "app.stop", "container.start", "container.stop",
              "controller.start", "controller.stop", "deployment.run",
              "deployment.pend", "deployment.degrade", "deployment.scale",
              "deployment.stop", "vm.allocate", "vm.deallocate"}
HandlerTopics == {"request.arrive", "request.accept", "request.reject",
                  "action.execute", "sim.log"}
Subscribed == LogTopics \cup HandlerTopics

\* evque.publish(topic, time, *args): a topic nobody subscribed to is dropped.
\* at is the clock value at publication (kept for the causality properties).
\* seq numbers the publications.
PublishText(w, topic, time, args, text) ==
  IF topic \in Subscribed
  THEN [w EXCEPT !.bus = Append(@, [topic |-> topic, time |-> time, args |-> args,
                                     text |-> text, at |-> w.now,
                                     seq |-> w.published + 1]),
                 !.published = @ + 1]
  ELSE w

Publish(w, topic, time, args) == PublishText(w, topic, time, args, "")

\* The event run_until delivers next: the least fire time, ties in publish order.
NextIdx(q) ==
  CHOOSE i \in DOMAIN q :
    \A j \in DOMAIN q : q[i].time < q[j].time \/ (q[i].time = q[j].time /\ i <= j)

Deliverable(q, t) == q # <<>> /\ q[NextIdx(q)].time <= t

DropIdx(q, i) == [j \in 1..(Len(q) - 1) |-> IF j < i THEN q[j] ELSE q[j + 1]]

\* ------------------------------------------------------- VmmSpaceShared
\* The ranges taken from the greatest start downwards.
find_gpu_blocks_descending(profile, gpu) ==
  LET starts == Ascending(gpu)
      n == Len(starts)
      ranges == [i \in 1 .. n |-> starts[n + 1 - i] .. (starts[n + 1 - i] + profile[2] - 1)]
  IN SelectSeq(ranges, LAMBDA blocks : blocks \subseteq gpu)

\* find_gpu_blocks: every range start .. start + blocks - 1 inside the free set,
\* in iteration order of the free set.
find_gpu_blocks(profile, gpu) ==
  LET num_memory_blocks == profile[2]
      starts == Ascending(gpu)
      ranges == [i \in DOMAIN starts |-> starts[i] .. (starts[i] + num_memory_blocks - 1)]
  IN SelectSeq(ranges, LAMBDA blocks : blocks \subseteq gpu)

\* has_capacity(vm) of host h: <<cpu, ram, gpu>>.
has_capacity(w, h, v) ==
  LET m == w.vmm[h]
  IN << Cardinality(m.free_cpu) >= Vm(v).CPU,
        m.free_ram >= Vm(v).RAM,
        Vm(v).GPU = <<>>
          \/ \E g \in DOMAIN m.free_gpu : find_gpu_blocks(Vm(v).GPU, m.free_gpu[g]) # <<>> >>

All3(t) == t[1] /\ t[2] /\ t[3]

\* Vm.turn_on / Vm.turn_off (turn_off restarts the OS: both app lists cleared).
turn_on(w, v) == [w EXCEPT !.vm_state[v] = "ON"]
turn_off_keep(w, v) == [w EXCEPT !.vm_state[v] = "OFF"]
turn_off(w, v) ==
  [w EXCEPT !.vm_state[v] = "OFF", !.os[v] = [running |-> <<>>, stopped |-> <<>>]]

\* The first GPU of the host with a free range for the profile (allocate's for/break).
FirstGpu(m, profile) ==
  MinOf({g \in DOMAIN m.free_gpu : find_gpu_blocks(profile, m.free_gpu[g]) # <<>>})

\* One iteration of allocate's loop.  set.pop() takes an arbitrary element, so the
\* outcome is a set of worlds, one per choice of vm.CPU free cores.
Vmm_allocate_one(w, h, v) ==
  IF ~All3(has_capacity(w, h, v))
  THEN {[w EXCEPT !.ret = Append(@, FALSE)]}
  ELSE
    { LET m == w.vmm[h]
          m1 == [m EXCEPT !.vm_cpu = DictSet(@, v, cores),
                          !.free_cpu = @ \ cores,
                          !.free_ram = @ - Vm(v).RAM]
          m2 == IF Vm(v).GPU # <<>>
                THEN LET g == FirstGpu(m, Vm(v).GPU)
                         gpu_blocks == Head(find_gpu_blocks(Vm(v).GPU, m.free_gpu[g]))
                     IN [m1 EXCEPT !.free_gpu[g] = @ \ gpu_blocks,
                                   !.vm_gpu = DictSet(@, v, <<g, gpu_blocks>>)]
                ELSE m1
          m3 == [m2 EXCEPT !.guests = Append(@, v)]
      IN turn_on([w EXCEPT !.vmm[h] = m3, !.ret = Append(@, TRUE)], v)
      : cores \in {c \in SUBSET w.vmm[h].free_cpu : Cardinality(c) = Vm(v).CPU} }

RECURSIVE Vmm_allocate_loop(_, _, _)
Vmm_allocate_loop(w, h, vs) ==
  IF vs = <<>> THEN {w}
  ELSE UNION { Vmm_allocate_loop(w1, h, Tail(vs)) : w1 \in Vmm_allocate_one(w, h, Head(vs)) }

\* VmmSpaceShared.allocate(vms): the worlds it can leave, the results in .ret.
Vmm_allocate(w, h, vs) == Vmm_allocate_loop([w EXCEPT !.ret = <<>>], h, vs)

\* `vm in self`: Vmm defines __contain__, not __contains__, so Python iterates the
\* guest list and compares each guest with the VM, by identity first and then with
\* the field-wise __eq__ of the Vm dataclass.  Two distinct VMs that agree on NAME,
\* CPU, RAM and GPU compare their OS next, which compares its VM again: the
\* comparison never ends and Python raises RecursionError.
RECURSIVE VmFind(_, _)
VmFind(guests, v) ==
  IF guests = <<>> THEN "absent"
  ELSE IF Head(guests) = v THEN "found"
  ELSE IF /\ Vm(Head(guests)).NAME = Vm(v).NAME /\ Vm(Head(guests)).CPU = Vm(v).CPU
          /\ Vm(Head(guests)).RAM = Vm(v).RAM /\ Vm(Head(guests)).GPU = Vm(v).GPU
       THEN "RecursionError"
  ELSE VmFind(Tail(guests), v)

\* One iteration of deallocate's loop.
Vmm_deallocate_one(w, h, v) ==
  LET m == w.vmm[h]
  IN IF w.raised # NoExc THEN w
     ELSE IF VmFind(m.guests, v) = "RecursionError"
       THEN [w EXCEPT !.raised = Exc("RecursionError", v)]
     ELSE IF VmFind(m.guests, v) = "absent" THEN [w EXCEPT !.ret = Append(@, FALSE)]
     ELSE IF v \notin DOMAIN m.vm_cpu THEN [w EXCEPT !.raised = Exc("KeyError", v)]
     ELSE
       LET m1 == [m EXCEPT !.free_cpu = @ \cup m.vm_cpu[v],
                           !.vm_cpu = DictDel(@, v),
                           !.free_ram = @ + Vm(v).RAM]
           m2 == IF Vm(v).GPU # <<>>
                 THEN [m1 EXCEPT !.free_gpu[m.vm_gpu[v][1]] = @ \cup m.vm_gpu[v][2],
                                 !.vm_gpu = DictDel(@, v)]
                 ELSE m1
           m3 == [m2 EXCEPT !.guests = ListRemove(@, v)]
       IN turn_off([w EXCEPT !.vmm[h] = m3, !.ret = Append(@, TRUE)], v)

RECURSIVE Vmm_deallocate_loop(_, _, _)
Vmm_deallocate_loop(w, h, vs) ==
  IF vs = <<>> THEN w
  ELSE Vmm_deallocate_loop(Vmm_deallocate_one(w, h, Head(vs)), h, Tail(vs))

\* VmmSpaceShared.deallocate(vms): the results in .ret.
Vmm_deallocate(w, h, vs) == Vmm_deallocate_loop([w EXCEPT !.ret = <<>>], h, vs)

\* Vmm.idles(): the guests whose OS runs no app, in guest order.
idles(w, h) == SelectSeq(w.vmm[h].guests, LAMBDA v : w.os[v].running = <<>>)

\* ------------------------------------------------------------ VmpFirstFit
\* A scan that keeps the last host with capacity instead of stopping at the first.
LastFitHost(fit) == CHOOSE x \in fit : \A y \in fit : x >= y

\* The host the scan `for host in HOSTS: if all(has_capacity): ... break` stops at.
FirstFitHost(fit) == MinOf(fit)

\* One iteration of VmpFirstFit.allocate's loop over the VMs.
Vmp_allocate_one(w, v) ==
  LET fit == {h \in HOSTS : All3(has_capacity(w, h, v))}
      entry(host) == [vm |-> v, pre |-> w.vmm, host |-> host]
  IN IF fit = {}
     THEN {[w EXCEPT !.results = Append(@, FALSE), !.log = Append(@, entry(0))]}
     ELSE LET host == FirstFitHost(fit)
          IN { Publish([w1 EXCEPT !.results = @ \o w1.ret,
                                  !.vm_pm = DictSet(@, v, host),
                                  !.log = Append(@, entry(host))],
                       "vm.allocate", w1.now, <<host, v>>)
               : w1 \in Vmm_allocate(w, host, <<v>>) }

RECURSIVE Vmp_allocate_loop(_, _)
Vmp_allocate_loop(w, vs) ==
  IF vs = <<>> THEN {w}
  ELSE UNION { Vmp_allocate_loop(w1, Tail(vs)) : w1 \in Vmp_allocate_one(w, Head(vs)) }

\* VmpFirstFit.allocate(vms): the worlds it can leave; the results in .results and
\* the record of the call in .log.
Vmp_allocate(w, vs) == Vmp_allocate_loop([w EXCEPT !.results = <<>>, !.log = <<>>], vs)

\* VmpFirstFit.deallocate after host.VMM.deallocate([vm]) returned: extend the
\* results, drop the map entry, publish vm.deallocate.
Vmp_deallocate_record(w1, host, v) ==
  IF w1.raised # NoExc THEN w1
  ELSE Publish([w1 EXCEPT !.results = @ \o w1.ret, !.vm_pm = DictDel(@, v)],
               "vm.deallocate", w1.now, <<host, v>>)

\* One iteration of VmpFirstFit.deallocate's loop: self._vm_pm[vm] raises KeyError
\* for a VM that is not in the map.
Vmp_deallocate_one(w, v) ==
  IF w.raised # NoExc THEN w
  ELSE IF v \notin DOMAIN w.vm_pm THEN [w EXCEPT !.raised = Exc("KeyError", v)]
  ELSE Vmp_deallocate_record(Vmm_deallocate(w, w.vm_pm[v], <<v>>), w.vm_pm[v], v)

RECURSIVE Vmp_deallocate_loop(_, _)
Vmp_deallocate_loop(w, vs) ==
  IF vs = <<>> THEN w
  ELSE Vmp_deallocate_loop(Vmp_deallocate_one(w, Head(vs)), Tail(vs))

Vmp_deallocate(w, vs) == Vmp_deallocate_loop([w EXCEPT !.results = <<>>], vs)

\* VmpFirstFit.stopped(): the idle guests of every host, hosts in declaration order.
RECURSIVE Vmp_stopped_from(_, _)
Vmp_stopped_from(w, h) ==
  IF h > Len(scn.hosts) THEN <<>> ELSE idles(w, h) \o Vmp_stopped_from(w, h + 1)

Vmp_stopped(w) == Vmp_stopped_from(w, 1)

\* Vmp.empty()
Vmp_empty(w) == DOMAIN w.vm_pm = {}

\* -------------------------------------------------------------------- App
None == -1

\* App.is_stopped(): expired, or no thread has cycles left.
is_stopped(a, t) ==
  (a.EXPIRATION # None /\ t >= a.EXPIRATION) \/ (\A i \in DOMAIN a.remained : a.remained[i] = 0)

\* A while loop that spends the whole budget of the core on the current thread.
App_spend_all(a, thread_idx, remaining, consumed, t) ==
  IF remaining > 0 /\ ~is_stopped(a, t)
  THEN [app |-> [a EXCEPT !.remained[thread_idx] = @ - remaining],
        thread_idx |-> (thread_idx % Len(a.remained)) + 1, consumed |-> consumed + remaining]
  ELSE [app |-> a, thread_idx |-> thread_idx, consumed |-> consumed]

\* The while loop of App.resume on one core: spend on the current thread, move on.
RECURSIVE App_spend(_, _, _, _, _)
App_spend(a, thread_idx, remaining, consumed, t) ==
  IF remaining > 0 /\ ~is_stopped(a, t)
  THEN LET cycles_to_spend ==
             IF remaining < a.remained[thread_idx] THEN remaining ELSE a.remained[thread_idx]
       IN App_spend([a EXCEPT !.remained[thread_idx] = @ - cycles_to_spend],
                    (thread_idx % Len(a.remained)) + 1,
                    remaining - cycles_to_spend, consumed + cycles_to_spend, t)
  ELSE [app |-> a, thread_idx |-> thread_idx, consumed |-> consumed]

\* The for loop of App.resume over the cores; r is what the while loop left on
\* the core before core_idx.
RECURSIVE App_cores(_, _, _, _, _), App_core_done(_, _, _, _, _)
App_cores(r, cpu, core_idx, consumed_cycles, t) ==
  IF core_idx > Len(cpu) THEN [app |-> r.app, consumed |-> consumed_cycles]
  ELSE App_core_done(App_spend(r.app, r.thread_idx, cpu[core_idx], 0, t),
                     cpu, core_idx, consumed_cycles, t)

App_core_done(r, cpu, core_idx, consumed_cycles, t) ==
  App_cores(r, cpu, core_idx + 1, Append(consumed_cycles, r.consumed), t)

\* App.resume(cpu): the app afterwards and the cycles consumed per core.
App_resume(a, cpu, t) ==
  App_cores([app |-> [a EXCEPT !.resumed = TRUE], thread_idx |-> 1, consumed |-> 0],
            cpu, 1, <<>>, t)

\* ----------------------------------------------------------- OsTimeShared
\* The __eq__ that @dataclass generates for App and for Container (only Base
\* defines __eq__ itself): the same class and equal fields.  _remained is not a
\* field.  Dicts hash by id(), so they tell equal objects apart; lists do not.
AppEq(x, y) ==
  /\ x.kind = y.kind
  /\ x.NAME = y.NAME
  /\ x.LENGTH = y.LENGTH
  /\ x.EXPIRATION = y.EXPIRATION
  /\ x.kind = "container" => (x.CPU = y.CPU /\ x.RAM = y.RAM /\ x.GPU = y.GPU)

\* `a in s` and s.remove(a) on a list of apps: the first element that is a or
\* equals a.
AppIn(w, s, a) == \E i \in DOMAIN s : s[i] = a \/ AppEq(w.apps[s[i]], w.apps[a])

RECURSIVE AppRemove(_, _, _)
AppRemove(w, s, a) ==
  IF s = <<>> THEN <<>>
  ELSE IF Head(s) = a \/ AppEq(w.apps[Head(s)], w.apps[a]) THEN Tail(s)
  ELSE <<Head(s)>> \o AppRemove(w, Tail(s), a)

\* Os.terminate([app])
terminate(w, v, a) ==
  [w EXCEPT !.os[v].running = AppRemove(w, @, a), !.os[v].stopped = Append(@, a)]

\* The kind in the topic of the .stop events: type(app) of the loop variable `app`
\* after the dispatch loop, that is of the last app dispatched.
StopKind(w, running) == w.apps[running[Len(running)]].kind

\* The dispatch loop of OsTimeShared.resume over the apps running at the call:
\* Os_dispatch publishes the .start of an app that never ran, Os_dispatch_app
\* computes its allotment and resumes it, Os_dispatch_account subtracts what it
\* consumed and notes whether it stopped.
RECURSIVE Os_dispatch(_, _, _, _, _, _, _), Os_dispatch_app(_, _, _, _, _, _, _),
          Os_dispatch_account(_, _, _, _, _, _, _, _)
Os_dispatch(w, v, running, k, remained_cycles, stopped_apps, duration) ==
  IF k > Len(running)
  THEN [w |-> w, remained |-> remained_cycles, stopped |-> stopped_apps]
  ELSE Os_dispatch_app(
         IF ~w.apps[running[k]].resumed
         THEN Publish(w, w.apps[running[k]].kind \o ".start", w.now, <<v, running[k]>>)
         ELSE w,
         v, running, k, remained_cycles, stopped_apps, duration)

Os_dispatch_app(w, v, running, k, remained_cycles, stopped_apps, duration) ==
  Os_dispatch_account(
    w, v, running, k, remained_cycles, stopped_apps, duration,
    App_resume(w.apps[running[k]],
               [i \in DOMAIN remained_cycles |->
                  (remained_cycles[i] * duration) \div (Len(running) - k + 1)],
               w.now))

Os_dispatch_account(w, v, running, k, remained_cycles, stopped_apps, duration, r) ==
  Os_dispatch([w EXCEPT !.apps[running[k]] = r.app], v, running, k + 1,
              [i \in DOMAIN remained_cycles |-> remained_cycles[i] - r.consumed[i]],
              IF is_stopped(r.app, w.now) THEN Append(stopped_apps, running[k])
              ELSE stopped_apps,
              duration)

RECURSIVE Os_terminate_all(_, _, _, _)
Os_terminate_all(w, v, stopped_apps, kind) ==
  IF stopped_apps = <<>> THEN w
  ELSE Os_terminate_all(
         Publish(terminate(w, v, Head(stopped_apps)), kind \o ".stop", w.now,
                 <<v, Head(stopped_apps)>>),
         v, Tail(stopped_apps), kind)

\* OsTimeShared.resume after the dispatch loop: terminate the stopped apps, return
\* the cycles consumed per core (in .ret).
Os_finish(d, v, running, cpu, duration) ==
  [(IF d.stopped = <<>> THEN d.w
    ELSE Os_terminate_all(d.w, v, d.stopped, StopKind(d.w, running)))
   EXCEPT !.ret = [i \in DOMAIN cpu |-> cpu[i] * duration - d.remained[i]]]

\* OsTimeShared.resume(cpu, duration)
Os_resume(w, v, cpu, duration) ==
  Os_finish(Os_dispatch(w, v, w.os[v].running, 1, [i \in DOMAIN cpu |-> cpu[i] * duration],
                        <<>>, duration),
            v, w.os[v].running, cpu, duration)

\* A cores-vector that counts each assigned core as one cycle per tick.
GuestCpuUnit(w, h, v) == [i \in DOMAIN Ascending(w.vmm[h].vm_cpu[v]) |-> 1]

\* The frequencies of the host cores assigned to a guest, in iteration order.
GuestCpu(w, h, v) ==
  [i \in DOMAIN Ascending(w.vmm[h].vm_cpu[v]) |->
     scn.hosts[h].CPU[Ascending(w.vmm[h].vm_cpu[v])[i] + 1]]

\* VmmSpaceShared.resume(duration): every guest that is ON, in guest order.
RECURSIVE Vmm_resume_loop(_, _, _, _)
Vmm_resume_loop(w, h, gs, duration) ==
  IF gs = <<>> THEN w
  ELSE Vmm_resume_loop(
         IF w.vm_state[Head(gs)] = "ON"
         THEN Os_resume(w, Head(gs), GuestCpu(w, h, Head(gs)), duration)
         ELSE w,
         h, Tail(gs), duration)

Vmm_resume(w, h, duration) == Vmm_resume_loop(w, h, w.vmm[h].guests, duration)

\* Vmp.resume(duration): every host's VMM, hosts in declaration order.
RECURSIVE Vmp_resume_from(_, _, _)
Vmp_resume_from(w, h, duration) ==
  IF h > Len(scn.hosts) THEN w
  ELSE Vmp_resume_from(Vmm_resume(w, h, duration), h + 1, duration)

Vmp_resume(w, duration) == Vmp_resume_from(w, 1, duration)

\* ------------------------------------------------------------- Simulation
Req(i) == scn.reqs[i]

\* isinstance(r, model.Request): an entry that names no class is a Request.
IsRequest(i) == "class" \notin DOMAIN Req(i) \/ Req(i).class = "Request"

\* [r for r in requests if isinstance(r, model.Request)]
OnlyRequests(rs) == SelectSeq(rs, IsRequest)

\* action.EXECUTE is a callback (not None).
HasExecute(i) == "EXECUTE" \in DOMAIN Req(i) /\ Req(i).EXECUTE

\* Simulation._handle_action_execute(actions): the entries whose EXECUTE is called,
\* in call order.
handle_action_execute(actions) == SelectSeq(actions, HasExecute)

\* sum(not r.IGNORED for r in requests)
NonIgnored(rs) == Cardinality({i \in DOMAIN rs : ~Req(rs[i]).IGNORED})

B(b) == IF b THEN 1 ELSE 0

\* The for loops that publish one sim.log line per request: verb, VM name, tags.
RECURSIVE LogRequests(_, _, _)
LogRequests(w, verb, rs) ==
  IF rs = <<>> THEN w
  ELSE LogRequests(
         PublishText(w, "sim.log", w.now,
                     <<Req(Head(rs)).VM, B(Req(Head(rs)).REQUIRED), B(Req(Head(rs)).IGNORED)>>,
                     verb),
         verb, Tail(rs))

\* The requests whose allocation result is `want`, in order.
RECURSIVE Outcome(_, _, _)
Outcome(rs, allocations, want) ==
  IF rs = <<>> \/ allocations = <<>> THEN <<>>
  ELSE (IF Head(allocations) = want THEN <<Head(rs)>> ELSE <<>>)
       \o Outcome(Tail(rs), Tail(allocations), want)

\* The first rejected request of the zip loop that is REQUIRED: the handler raises
\* there (0 when there is none).
FirstRequiredRejected(rs, allocations) ==
  LET bad == {i \in DOMAIN rs : i <= Len(allocations) /\ ~allocations[i] /\ Req(rs[i]).REQUIRED}
  IN IF bad = {} THEN 0 ELSE MinOf(bad)

\* The handler without its `raise` for a rejected REQUIRED request.
Arrive_outcome_noraise(w, rs) ==
  Publish(
    Publish(
      Publish(w, "request.accept", w.now, Outcome(rs, w.results, TRUE)),
      "request.reject", w.now, Outcome(rs, w.results, FALSE)),
    "action.execute", w.now, rs)

\* _handle_request_arrive after VMP.allocate returned: callbacks, the raise, the
\* three publications.
Arrive_outcome(w, rs) ==
  LET allocations == w.results
      i == FirstRequiredRejected(rs, allocations)
  IN IF i # 0
     THEN [w EXCEPT !.raised = Exc("AssertionError", Req(rs[i]).VM)]
     ELSE Publish(
            Publish(
              Publish(w, "request.accept", w.now, Outcome(rs, allocations, TRUE)),
              "request.reject", w.now, Outcome(rs, allocations, FALSE)),
            "action.execute", w.now, rs)

\* Simulation._handle_request_arrive(requests): the worlds it can leave. Its first
\* statement rebinds `requests` to the Requests among the entries, for the rest of
\* the handler.
handle_request_arrive(w, rs) ==
  LET requests == OnlyRequests(rs)
      w1 == [w EXCEPT !.counts.requests = @ + NonIgnored(requests)]
      w2 == LogRequests(w1, "arrive", requests)
      vs == [i \in DOMAIN requests |-> Req(requests[i]).VM]
  IN { Arrive_outcome(w3, requests) : w3 \in Vmp_allocate(w2, vs) }

\* The accept handler counting the IGNORED requests too.
handle_request_accept_all(w, rs) ==
  LogRequests([w EXCEPT !.counts.accepted = @ + Len(rs)], "accept", rs)

\* Simulation._handle_request_accept / _handle_request_reject
handle_request_accept(w, rs) ==
  LogRequests([w EXCEPT !.counts.accepted = @ + NonIgnored(rs)], "accept", rs)

handle_request_reject(w, rs) ==
  LogRequests([w EXCEPT !.counts.rejected = @ + NonIgnored(rs)], "reject", rs)

\* The lambda of _create_log_formatter: one sim.log line per lifecycle event.
log_formatter(w, ev) == PublishText(w, "sim.log", w.now, ev.args, ev.topic)

\* Tracker.has_pending()
has_pending(c) == c.requests - c.accepted - c.rejected > 0

\* is_complete() without its VMP.empty() test.
is_complete_no_vmp(w) == w.bus = <<>> /\ ~has_pending(w.counts)

\* Simulation.is_complete()
is_complete(w) == w.bus = <<>> /\ ~has_pending(w.counts) /\ Vmp_empty(w)

\* The duration run() was called with: None for run(), the argument for
\* run(duration).  The call is made at clock 0, right after the construction.
Duration == IF "duration" \in DOMAIN scn THEN scn.duration ELSE None

\* An exit test that ignores the duration.
should_exit_complete(w) == is_complete(w)

\* should_exit() of run: has_duration_elapsed if duration (a duration of 0 is
\* falsy) else is_complete; start_time is the clock value at the call.
should_exit(w) ==
  IF Duration \notin {None, 0} THEN w.now >= 0 + Duration ELSE is_complete(w)

\* run_until called one tick ahead of the clock.
RunUntilAhead(w) == w.now + 1

\* The time _simulate_step passes to evque.run_until.
RunUntilTime(w) == w.now

\* _simulate_step after run_until: resume, collect the stopped VMs, advance the clock.
step_clock(w) == IF w.raised # NoExc THEN w ELSE [w EXCEPT !.now = @ + scn.res]

step_collect(w) ==
  step_clock(IF Vmp_stopped(w) # <<>> THEN Vmp_deallocate(w, Vmp_stopped(w)) ELSE w)

\* ------------------------------------------------- ControlPlaneRoundRobin
\* scn.nodes       : CLUSTER_CONTROLLER.NODES, per node [CPU, RAM, GPU, state]
\* scn.deployments : per deployment [CONTAINER_SPECS : list of [NAME, LENGTH, CPU, RAM,
\*                   GPU], replicas]
\* scn.variant     : "discrete" (ControlPlaneRoundRobin) or "fractional"
\*                   (FractionalGPUControlPlaneRoundRobin)
\* A discrete GPU value is GpuNone for None, <<>> for the empty tuple () and
\* <<units, blocks>> for a profile.  A fractional GPU share is a number of halves:
\* GpuWhole stands for 1.0.
GpuNone == <<-1>>
GpuWhole == 2
NODES == DOMAIN scn.nodes
DEPLOYMENTS == DOMAIN scn.deployments
CONTAINER_SPECS(d) == scn.deployments[d].CONTAINER_SPECS
Fractional == scn.variant = "fractional"
\* The controller in the arguments of the deployment events.
CLUSTER_CONTROLLER == 0

\* del s[i] and reversed(s) on a list.
ListDel(s, i) == SubSeq(s, 1, i - 1) \o SubSeq(s, i + 1, Len(s))
Reverse(s) == [i \in DOMAIN s |-> s[Len(s) + 1 - i]]

\* ControlPlane.__post_init__, ControlPlaneRoundRobin.__post_init__ and, in the
\* fractional variant, the override of the GPU ledger; .replicas is the attribute
\* Deployment.replicas of each deployment.
ControlPlane_init(s) ==
  [node_cpu |-> [n \in DOMAIN s.nodes |-> s.nodes[n].CPU],
   node_ram |-> [n \in DOMAIN s.nodes |-> s.nodes[n].RAM],
   node_gpu |-> [n \in DOMAIN s.nodes |->
                   IF s.variant = "fractional"
                   THEN (IF s.nodes[n].GPU \in {GpuNone, <<>>} THEN 0 ELSE GpuWhole)
                   ELSE s.nodes[n].GPU],
   deployment_replicas |-> <<>>,
   container_deployment |-> <<>>,
   container_node |-> <<>>,
   degraded_deployments |-> <<>>,
   pending_deployments |-> <<>>,
   scaled_deployments |-> <<>>,
   replicas |-> [d \in DOMAIN s.deployments |-> s.deployments[d].replicas]]

\* _get_container_requested_resources(container_spec)
get_container_requested_resources(spec) ==
  [cpu |-> spec.CPU[1], ram |-> spec.RAM[1], gpu |-> spec.GPU]

\* _get_deployment_requested_resources(deployment): the CPU and RAM totals and, for
\* the GPU, the list of the requests (discrete) or their sum (fractional).
get_deployment_requested_resources(d) ==
  [cpu |-> SumSeq([i \in DOMAIN CONTAINER_SPECS(d) |-> CONTAINER_SPECS(d)[i].CPU[1]]),
   ram |-> SumSeq([i \in DOMAIN CONTAINER_SPECS(d) |-> CONTAINER_SPECS(d)[i].RAM[1]]),
   gpu |-> IF Fractional
           THEN SumSeq([i \in DOMAIN CONTAINER_SPECS(d) |-> CONTAINER_SPECS(d)[i].GPU])
           ELSE [i \in DOMAIN CONTAINER_SPECS(d) |-> CONTAINER_SPECS(d)[i].GPU]]

\* _has_sufficient_resources(requested_cpu, requested_ram, requested_gpu, node)
has_sufficient_resources(w, req, node) ==
  /\ w.cp.node_cpu[node] >= req.cpu
  /\ w.cp.node_ram[node] >= req.ram
  /\ IF Fractional THEN w.cp.node_gpu[node] >= req.gpu
     ELSE req.gpu = <<>> \/ w.cp.node_gpu[node] \in Range(req.gpu)

has_sufficient_resources_for_deployment(w, d, node) ==
  has_sufficient_resources(w, get_deployment_requested_resources(d), node)

\* The discrete variant passes the one-element list [requested_gpu].
has_sufficient_resources_for_container(w, spec, node) ==
  has_sufficient_resources(
    w,
    [get_container_requested_resources(spec)
       EXCEPT !.gpu = IF Fractional THEN @ ELSE <<@>>],
    node)

\* _deploy_container(container, node); .ret is its return value.
deploy_container(w, c, node) ==
  IF ~has_sufficient_resources_for_container(w, w.apps[c], node)
  THEN [w EXCEPT !.ret = FALSE]
  ELSE [w EXCEPT !.cp.node_cpu[node] = @ - w.apps[c].CPU[1],
                 !.cp.node_ram[node] = @ - w.apps[c].RAM[1],
                 !.cp.node_gpu[node] = IF Fractional THEN @ - w.apps[c].GPU ELSE <<>>,
                 !.os[node].running = Append(@, c),
                 !.ret = TRUE]

\* Container(**container_spec)
Container(spec) ==
  [kind |-> "container", NAME |-> spec.NAME, LENGTH |-> spec.LENGTH, EXPIRATION |-> None,
   remained |-> spec.LENGTH, resumed |-> FALSE,
   CPU |-> spec.CPU, RAM |-> spec.RAM, GPU |-> spec.GPU]

\* The ids of the containers _deploy_replica creates: fresh ones, after every app.
replica_containers(w, d) == [i \in DOMAIN CONTAINER_SPECS(d) |-> Len(w.apps) + i]

\* The loop of _deploy_replica: the return value of _deploy_container is not
\* looked at, the container is recorded whatever it is.
deploy_replica_record(w, d, node, c) ==
  [w EXCEPT !.cp.container_node = DictSet(@, c, node),
            !.cp.container_deployment = DictSet(@, c, d)]

RECURSIVE deploy_replica_loop(_, _, _, _)
deploy_replica_loop(w, d, node, cs) ==
  IF cs = <<>> THEN w
  ELSE deploy_replica_loop(
         deploy_replica_record(deploy_container(w, Head(cs), node), d, node, Head(cs)),
         d, node, Tail(cs))

\* _deploy_replica(deployment, node); .ret is its return value.
deploy_replica(w, d, node) ==
  IF ~has_sufficient_resources_for_deployment(w, d, node)
  THEN [w EXCEPT !.ret = FALSE]
  ELSE [deploy_replica_loop(
          [w EXCEPT !.apps = @ \o [i \in DOMAIN CONTAINER_SPECS(d) |->
                                     Container(CONTAINER_SPECS(d)[i])]],
          d, node, replica_containers(w, d))
        EXCEPT !.cp.deployment_replicas[d] = Append(@, replica_containers(w, d)),
               !.ret = TRUE]

\* A worker list that names every ON node twice in a row.
OnNodesTwice(w) ==
  SelectSeq([i \in 1 .. 2 * Cardinality(NODES) |-> (i + 1) \div 2],
            LAMBDA n : w.vm_state[n] = "ON")

\* filter(lambda n: n.is_on(), NODES)
OnNodes(w) == SelectSeq([n \in NODES |-> n], LAMBDA n : w.vm_state[n] = "ON")

\* The for loop of _deploy_deployment over the workers: .returned tells that the
\* loop left through `return num_deployed_replicas`.
RECURSIVE deploy_workers(_, _, _, _, _), deploy_worker_done(_, _, _, _, _)
deploy_workers(w, d, workers, num_replicas, num_deployed_replicas) ==
  IF workers = <<>>
  THEN [w |-> w, deployed |-> num_deployed_replicas, returned |-> FALSE]
  ELSE IF num_replicas = num_deployed_replicas
  THEN [w |-> w, deployed |-> num_deployed_replicas, returned |-> TRUE]
  ELSE deploy_worker_done(deploy_replica(w, d, Head(workers)), d, Tail(workers),
                          num_replicas, num_deployed_replicas)

deploy_worker_done(w, d, workers, num_replicas, num_deployed_replicas) ==
  deploy_workers(w, d, workers, num_replicas,
                 IF w.ret THEN num_deployed_replicas + 1 ELSE num_deployed_replicas)

\* The while True loop of _deploy_deployment: rounds over the workers until the
\* count is reached or a round deploys nothing.
RECURSIVE deploy_rounds(_, _, _, _), deploy_round_done(_, _, _, _)
deploy_rounds(w, d, num_replicas, prev_num_deployed_replicas) ==
  deploy_round_done(
    deploy_workers(w, d, OnNodes(w), num_replicas, prev_num_deployed_replicas),
    d, num_replicas, prev_num_deployed_replicas)

deploy_round_done(r, d, num_replicas, prev_num_deployed_replicas) ==
  IF r.returned \/ r.deployed = prev_num_deployed_replicas
  THEN [r.w EXCEPT !.ret = r.deployed]
  ELSE deploy_rounds(r.w, d, num_replicas, r.deployed)

\* `not x` for an optional count: None and 0 are both false.
Falsy(x) == x = None \/ x = 0

\* _deploy_deployment(deployment, num_replicas); .ret is the number deployed.
deploy_deployment(w, d, num_replicas) ==
  deploy_rounds(
    IF d \notin DOMAIN w.cp.deployment_replicas \/ w.cp.deployment_replicas[d] = <<>>
    THEN [w EXCEPT !.cp.deployment_replicas = DictSet(@, d, <<>>)]
    ELSE w,
    d,
    IF Falsy(num_replicas) THEN w.cp.replicas[d] ELSE num_replicas,
    0)

\* The replica groups of a deployment for which `container in replica` is true.
ReplicasWith(w, replicas, c) == {i \in DOMAIN replicas : AppIn(w, replicas[i], c)}

\* _remove_container_references after the two del statements: the first group
\* that holds the container (or an equal one) loses it; an emptied group is
\* deleted; a deployment left without groups is deleted and deployment.stop is
\* published.
remove_empty_replica(w, d, i) ==
  IF w.cp.deployment_replicas[d][i] # <<>> THEN w
  ELSE IF Len(w.cp.deployment_replicas[d]) > 1
  THEN [w EXCEPT !.cp.deployment_replicas[d] = ListDel(@, i)]
  ELSE Publish([w EXCEPT !.cp.deployment_replicas = DictDel(@, d)],
               "deployment.stop", w.now, <<CLUSTER_CONTROLLER, d>>)

remove_from_replicas(w, d, c) ==
  IF d \notin DOMAIN w.cp.deployment_replicas THEN w
  ELSE IF ReplicasWith(w, w.cp.deployment_replicas[d], c) = {} THEN w
  ELSE remove_empty_replica(
         [w EXCEPT !.cp.deployment_replicas[d][MinOf(ReplicasWith(w, w.cp.deployment_replicas[d], c))]
                     = AppRemove(w, @, c)],
         d, MinOf(ReplicasWith(w, w.cp.deployment_replicas[d], c)))

\* _remove_container_references(container)
remove_container_references(w, c) ==
  remove_from_replicas(
    [w EXCEPT !.cp.container_deployment = DictDel(@, c),
              !.cp.container_node = DictDel(@, c)],
    w.cp.container_deployment[c], c)

\* _delete_container after the node is known: the resources go back to the ledger
\* (the discrete variant sets the node's GPU to the container's request).
release(w, node, c) ==
  [w EXCEPT !.cp.node_cpu[node] = @ + w.apps[c].CPU[1],
            !.cp.node_ram[node] = @ + w.apps[c].RAM[1],
            !.cp.node_gpu[node] = IF Fractional THEN @ + w.apps[c].GPU ELSE w.apps[c].GPU]

\* _delete_container(node, container): node is None when delete() calls it and the
\* VM of the event when container.stop is delivered.
delete_container(w, node, c) ==
  IF w.raised # NoExc THEN w
  ELSE IF c \notin DOMAIN w.cp.container_node
  THEN [w EXCEPT !.raised = Exc("KeyError", c)]
  ELSE IF node # None /\ w.cp.container_node[c] # node
  THEN [w EXCEPT !.raised = Exc("ValueError", c)]
  ELSE remove_container_references(release(w, w.cp.container_node[c], c), c)

\* The inner while loop of delete: the containers of a popped group, last first.
RECURSIVE delete_replica(_, _)
delete_replica(w, cs) ==
  IF cs = <<>> THEN w
  ELSE delete_replica(delete_container(w, None, Head(cs)), Tail(cs))

\* The outer while loop of delete: pops groups from the tail; its test raises
\* KeyError once the deployment's entry is gone.
RECURSIVE delete_loop(_, _, _)
delete_loop(w, d, num_replicas) ==
  IF w.raised # NoExc THEN w
  ELSE IF d \notin DOMAIN w.cp.deployment_replicas
  THEN [w EXCEPT !.raised = Exc("KeyError", d)]
  ELSE IF w.cp.deployment_replicas[d] = <<>> \/ num_replicas = 0 THEN w
  ELSE delete_loop(
         delete_replica(
           [w EXCEPT !.cp.deployment_replicas[d] = SubSeq(@, 1, Len(@) - 1)],
           Reverse(w.cp.deployment_replicas[d][Len(w.cp.deployment_replicas[d])])),
         d, num_replicas - 1)

delete_finish(w, d) ==
  IF w.raised # NoExc THEN w
  ELSE IF w.cp.deployment_replicas[d] = <<>>
  THEN [w EXCEPT !.cp.deployment_replicas = DictDel(@, d)]
  ELSE w

\* delete(deployment, num_replicas): self._deployment_replicas[deployment] raises
\* KeyError for a deployment without an entry.
delete(w, d, num_replicas) ==
  IF d \notin DOMAIN w.cp.deployment_replicas
  THEN [w EXCEPT !.raised = Exc("KeyError", d)]
  ELSE delete_finish(
         delete_loop(w, d, IF Falsy(num_replicas) THEN Len(w.cp.deployment_replicas[d])
                           ELSE num_replicas),
         d)

\* ControlPlane.apply(deployment) and ControlPlane.scale(deployment, replicas)
apply(w, d) == [w EXCEPT !.cp.pending_deployments = Append(@, d)]

scale(w, d, replicas) ==
  [w EXCEPT !.cp.replicas[d] = replicas, !.cp.scaled_deployments = Append(@, d)]

\* One deployment of _deploy_scaled_deployments.
scaled_publish(w, d, required_replicas) ==
  IF w.raised # NoExc THEN w
  ELSE Publish(w, "deployment.scale", w.now, <<CLUSTER_CONTROLLER, d, required_replicas>>)

scaled_by(w, d, required_replicas) ==
  IF required_replicas < 0
  THEN scaled_publish(delete(w, d, -required_replicas), d, required_replicas)
  ELSE IF required_replicas > 0
  THEN scaled_publish([w EXCEPT !.cp.degraded_deployments = Append(@, <<d, required_replicas>>)],
                      d, required_replicas)
  ELSE Publish(w, "deployment.run", w.now, <<CLUSTER_CONTROLLER, d>>)

scaled_one(w, d) ==
  IF d \notin DOMAIN w.cp.deployment_replicas
  THEN [w EXCEPT !.raised = Exc("KeyError", d)]
  ELSE scaled_by(w, d, w.cp.replicas[d] - Len(w.cp.deployment_replicas[d]))

\* _deploy_scaled_deployments: as many deployments as the queue held at the call.
RECURSIVE deploy_scaled_loop(_, _)
deploy_scaled_loop(w, num_scaled_deployments) ==
  IF num_scaled_deployments = 0 \/ w.raised # NoExc THEN w
  ELSE deploy_scaled_loop(
         scaled_one([w EXCEPT !.cp.scaled_deployments = Tail(@)],
                    Head(w.cp.scaled_deployments)),
         num_scaled_deployments - 1)

deploy_scaled_deployments(w) == deploy_scaled_loop(w, Len(w.cp.scaled_deployments))

\* An entry that is reported as running whatever remains.
degraded_done_run(w, d, num_remained_replicas) ==
  Publish(w, "deployment.run", w.now, <<CLUSTER_CONTROLLER, d>>)

\* One entry of _deploy_degraded_deployments, after _deploy_deployment returned.
degraded_done(w, d, num_remained_replicas) ==
  IF num_remained_replicas # 0
  THEN Publish([w EXCEPT !.cp.degraded_deployments = Append(@, <<d, num_remained_replicas>>)],
               "deployment.degrade", w.now, <<CLUSTER_CONTROLLER, d, num_remained_replicas>>)
  ELSE Publish(w, "deployment.run", w.now, <<CLUSTER_CONTROLLER, d>>)

degraded_deployed(w, d, num_remained_replicas) ==
  degraded_done(w, d, num_remained_replicas - w.ret)

\* _deploy_degraded_deployments
RECURSIVE deploy_degraded_loop(_, _)
deploy_degraded_loop(w, num_degraded_deployments) ==
  IF num_degraded_deployments = 0 \/ w.raised # NoExc THEN w
  ELSE deploy_degraded_loop(
         degraded_deployed(
           deploy_deployment([w EXCEPT !.cp.degraded_deployments = Tail(@)],
                             Head(w.cp.degraded_deployments)[1],
                             Head(w.cp.degraded_deployments)[2]),
           Head(w.cp.degraded_deployments)[1],
           Head(w.cp.degraded_deployments)[2]),
         num_degraded_deployments - 1)

deploy_degraded_deployments(w) == deploy_degraded_loop(w, Len(w.cp.degraded_deployments))

\* A pending phase that keeps every deployment short of its replicas on pending.
pending_deployed_pend(w, d) ==
  IF w.ret < w.cp.replicas[d]
  THEN Publish([w EXCEPT !.cp.pending_deployments = Append(@, d)],
               "deployment.pend", w.now, <<CLUSTER_CONTROLLER, d>>)
  ELSE Publish(w, "deployment.run", w.now, <<CLUSTER_CONTROLLER, d>>)

\* One deployment of _deploy_pending_deployments, after _deploy_deployment returned.
pending_deployed(w, d) ==
  IF w.ret = 0
  THEN Publish([w EXCEPT !.cp.pending_deployments = Append(@, d)],
               "deployment.pend", w.now, <<CLUSTER_CONTROLLER, d>>)
  ELSE IF w.ret < w.cp.replicas[d]
  THEN Publish([w EXCEPT !.cp.degraded_deployments = Append(@, <<d, w.cp.replicas[d] - w.ret>>)],
               "deployment.degrade", w.now,
               <<CLUSTER_CONTROLLER, d, w.cp.replicas[d] - w.ret>>)
  ELSE Publish(w, "deployment.run", w.now, <<CLUSTER_CONTROLLER, d>>)

\* _deploy_pending_deployments
RECURSIVE deploy_pending_loop(_, _)
deploy_pending_loop(w, num_pending_deployments) ==
  IF num_pending_deployments = 0 \/ w.raised # NoExc THEN w
  ELSE deploy_pending_loop(
         pending_deployed(
           deploy_deployment([w EXCEPT !.cp.pending_deployments = Tail(@)],
                             Head(w.cp.pending_deployments), None),
           Head(w.cp.pending_deployments)),
         num_pending_deployments - 1)

deploy_pending_deployments(w) == deploy_pending_loop(w, Len(w.cp.pending_deployments))

\* manage()
manage(w) ==
  deploy_pending_deployments(deploy_degraded_deployments(deploy_scaled_deployments(w)))

\* --------------------------------------------------- the state as a record
\* The operators above are functions of the state gathered in one record; .ret,
\* .results and .log are the locals and return values of the calls.
World ==
  [now |-> now, bus |-> bus, counts |-> counts, vmm |-> vmm, vm_pm |-> vm_pm,
   vm_state |-> vm_state, os |-> os, apps |-> apps, raised |-> raised,
   published |-> published, cp |-> cp, ret |-> <<>>, results |-> <<>>, log |-> alloc_log]

Commit(w) ==
  /\ now' = w.now
  /\ bus' = w.bus
  /\ counts' = w.counts
  /\ vmm' = w.vmm
  /\ vm_pm' = w.vm_pm
  /\ vm_state' = w.vm_state
  /\ os' = w.os
  /\ apps' = w.apps
  /\ raised' = w.raised
  /\ published' = w.published
  /\ cp' = w.cp
  /\ alloc_log' = w.log

\* ------------------------------------------------------------ construction
\* itertools.groupby(REQUESTS, key=ARRIVAL): runs of consecutive equal arrivals.
RECURSIVE GroupBy(_, _, _)
GroupBy(reqs, i, groups) ==
  IF i > Len(reqs) THEN groups
  ELSE IF groups # <<>> /\ reqs[groups[Len(groups)][1]].ARRIVAL = reqs[i].ARRIVAL
       THEN GroupBy(reqs, i + 1, [groups EXCEPT ![Len(groups)] = Append(@, i)])
       ELSE GroupBy(reqs, i + 1, Append(groups, <<i>>))

\* Simulation.__post_init__: one request.arrive per group, at the group's arrival.
RECURSIVE PublishArrivals(_, _, _)
PublishArrivals(w, reqs, groups) ==
  IF groups = <<>> THEN w
  ELSE PublishArrivals(
         Publish(w, "request.arrive", reqs[Head(groups)[1]].ARRIVAL, Head(groups)),
         reqs, Tail(groups))

\* VmmSpaceShared.__post_init__ for a host.
Vmm_init(host) ==
  [free_cpu |-> {c - 1 : c \in DOMAIN host.CPU},
   vm_cpu |-> <<>>,
   free_ram |-> host.RAM,
   free_gpu |-> [g \in DOMAIN host.GPU |-> 0 .. (host.GPU[g][2] - 1)],
   vm_gpu |-> <<>>,
   guests |-> <<>>]

\* App.__post_init__
App_init(a) ==
  [kind |-> a.kind, NAME |-> a.NAME, LENGTH |-> a.LENGTH, EXPIRATION |-> a.EXPIRATION,
   remained |-> a.LENGTH, resumed |-> FALSE]

\* The apps the scenario scheduled on a VM's OS before the run (Os.schedule).
ScheduledOn(s, v) == SelectSeq([i \in DOMAIN s.apps |-> i], LAMBDA i : s.apps[i].vm = v)

NoEvent == [topic |-> "", time |-> -1, args |-> <<>>, text |-> "", at |-> -1, seq |-> 0]
\* op: the last action; ev: the event it delivered; allocations: VMP.allocate's result
\* in a request.arrive delivery; outcome: every request decided so far -> allocated?;
\* dl, pdl: <<fire time, publication number>> of the last two events delivered;
\* pub0: the number of events published before the last action; calls: the number
\* of calls made into the cluster; executed: the entries whose EXECUTE was called.
NoLast ==
  [op |-> "init", ev |-> NoEvent, allocations |-> <<>>, outcome |-> <<>>,
   dl |-> <<-1, 0>>, pdl |-> <<-1, 0>>, pub0 |-> 0, calls |-> 0, executed |-> <<>>]

NoControlPlane == <<>>

\* The state after Simulation(NAME, USER, DATACENTER) for scenario s.
Constructed(s) ==
  LET w0 == [now |-> 0, bus |-> <<>>, published |-> 0]
      w1 == PublishArrivals(w0, s.reqs, GroupBy(s.reqs, 1, <<>>))
  IN /\ scn = s
     /\ now = 0
     /\ bus = w1.bus
     /\ published = w1.published
     /\ counts = [requests |-> 0, accepted |-> 0, rejected |-> 0]
     /\ vmm = [h \in DOMAIN s.hosts |-> Vmm_init(s.hosts[h])]
     /\ vm_pm = <<>>
     /\ vm_state = [v \in DOMAIN s.vms |-> "OFF"]
     /\ os = [v \in DOMAIN s.vms |-> [running |-> ScheduledOn(s, v), stopped |-> <<>>]]
     /\ apps = [i \in DOMAIN s.apps |-> App_init(s.apps[i])]
     /\ pc = "loop"
     /\ raised = NoExc
     /\ last = NoLast
     /\ alloc_log = <<>>
     /\ cp = NoControlPlane

\* --------------------------------------------------------- scenarios of Spec
\* Two hosts: two cores (frequencies 2 and 1), RAM 2 and one GPU of 2 memory blocks;
\* one core, RAM 2 and no GPU.
PoolHosts ==
  << [CPU |-> <<2, 1>>, RAM |-> 2, GPU |-> << <<1, 2>> >>],
     [CPU |-> <<1>>, RAM |-> 2, GPU |-> <<>>] >>

PoolVms ==
  << [NAME |-> "vm1", CPU |-> 1, RAM |-> 1, GPU |-> <<>>],
     [NAME |-> "vm2", CPU |-> 1, RAM |-> 1, GPU |-> <<1, 1>>],
     [NAME |-> "vm3", CPU |-> 2, RAM |-> 2, GPU |-> <<>>] >>

PoolApps ==
  << [vm |-> 1, kind |-> "app", NAME |-> "app1", LENGTH |-> <<2>>, EXPIRATION |-> None],
     [vm |-> 2, kind |-> "app", NAME |-> "app2", LENGTH |-> <<1, 1>>, EXPIRATION |-> None],
     [vm |-> 2, kind |-> "app", NAME |-> "app3", LENGTH |-> <<3>>, EXPIRATION |-> 2] >>

RequestLists ==
  UNION { [1..n -> [ARRIVAL : 0..MaxArrival, VM : DOMAIN PoolVms,
                    REQUIRED : BOOLEAN, IGNORED : BOOLEAN]] : n \in 0..MaxReq }

Scenarios ==
  { [hosts |-> PoolHosts, vms |-> PoolVms, apps |-> PoolApps, reqs |-> r, res |-> 1]
    : r \in RequestLists }

\* The first concrete scenario of the specification: one host with one core of
\* frequency 100, RAM 1024 and no GPU; one VM (1 core, RAM 512) that carries one app
\* of length (100,); resolution 1; the request arrives at 0.
SingleVmSingleApp ==
  [hosts |-> << [CPU |-> <<100>>, RAM |-> 1024, GPU |-> <<>>] >>,
   vms |-> << [NAME |-> "vm", CPU |-> 1, RAM |-> 512, GPU |-> <<>>] >>,
   apps |-> << [vm |-> 1, kind |-> "app", NAME |-> "app", LENGTH |-> <<100>>,
               EXPIRATION |-> None] >>,
   reqs |-> << [ARRIVAL |-> 0, VM |-> 1, REQUIRED |-> FALSE, IGNORED |-> FALSE] >>,
   res |-> 1]

\* Two hosts of one core and RAM 1 each, and one VM (1 core, RAM 1, one app of length
\* (3,)) that the user requests twice at time 0.
TwiceRequested ==
  [hosts |-> << [CPU |-> <<1>>, RAM |-> 1, GPU |-> <<>>],
                [CPU |-> <<1>>, RAM |-> 1, GPU |-> <<>>] >>,
   vms |-> << [NAME |-> "v", CPU |-> 1, RAM |-> 1, GPU |-> <<>>] >>,
   apps |-> << [vm |-> 1, kind |-> "app", NAME |-> "a", LENGTH |-> <<3>>,
               EXPIRATION |-> None] >>,
   reqs |-> << [ARRIVAL |-> 0, VM |-> 1, REQUIRED |-> FALSE, IGNORED |-> FALSE],
               [ARRIVAL |-> 0, VM |-> 1, REQUIRED |-> FALSE, IGNORED |-> FALSE] >>,
   res |-> 1]

ConcreteScenarios == {SingleVmSingleApp, TwiceRequested}

Init == \E s \in Scenarios \cup ConcreteScenarios : Constructed(s)

\* ---------------------------------------------------------------- actions
\* run(): the loop runs a step while should_exit() is false.
InStep == pc = "run_until" \/ (pc = "loop" /\ ~should_exit(World))

CanDeliver(topics) ==
  /\ InStep
  /\ Deliverable(bus, RunUntilTime(World))
  /\ bus[NextIdx(bus)].topic \in topics

Popped == [World EXCEPT !.bus = DropIdx(bus, NextIdx(bus))]

Delivered(w, ev) ==
  /\ Commit(w)
  /\ pc' = IF w.raised # NoExc THEN "raised" ELSE "run_until"
  /\ last' = [op |-> ev.topic, ev |-> ev, allocations |-> w.results,
              outcome |-> IF ev.topic = "request.arrive"
                          THEN [i \in (DOMAIN last.outcome) \cup
                                      {OnlyRequests(ev.args)[k] : k \in DOMAIN w.results} |->
                                  IF \E k \in DOMAIN w.results : OnlyRequests(ev.args)[k] = i
                                  THEN w.results[CHOOSE k \in DOMAIN w.results :
                                                   OnlyRequests(ev.args)[k] = i]
                                  ELSE last.outcome[i]]
                          ELSE last.outcome,
              executed |-> IF ev.topic = "action.execute"
                           THEN last.executed \o handle_action_execute(ev.args)
                           ELSE last.executed,
              dl |-> <<ev.time, ev.seq>>, pdl |-> last.dl, pub0 |-> published,
              calls |-> last.calls]
  /\ UNCHANGED scn

\* run_until delivers a request.arrive event to _handle_request_arrive.
DeliverArrive ==
  /\ CanDeliver({"request.arrive"})
  /\ LET ev == bus[NextIdx(bus)]
     IN \E w \in handle_request_arrive(Popped, ev.args) : Delivered(w, ev)

\* run_until delivers a request.accept event to _handle_request_accept.
DeliverAccept ==
  /\ CanDeliver({"request.accept"})
  /\ LET ev == bus[NextIdx(bus)]
     IN Delivered(handle_request_accept(Popped, ev.args), ev)

\* run_until delivers a request.reject event to _handle_request_reject.
DeliverReject ==
  /\ CanDeliver({"request.reject"})
  /\ LET ev == bus[NextIdx(bus)]
     IN Delivered(handle_request_reject(Popped, ev.args), ev)

\* run_until delivers an action.execute event to _handle_action_execute (the calls
\* of EXECUTE are kept in `last`) or a sim.log event to _handle_simulation_log
\* (which prints).
DeliverExecute ==
  /\ CanDeliver({"action.execute"})
  /\ Delivered(Popped, bus[NextIdx(bus)])

DeliverLog ==
  /\ CanDeliver({"sim.log"})
  /\ Delivered(Popped, bus[NextIdx(bus)])

\* The lifecycle topics a control plane subscribed to as well.
ControlPlaneTopics == IF cp = NoControlPlane THEN {} ELSE {"container.stop"}

\* run_until delivers a lifecycle event to its log formatter.
DeliverLifecycle ==
  /\ CanDeliver(LogTopics \ ControlPlaneTopics)
  /\ LET ev == bus[NextIdx(bus)]
     IN Delivered(log_formatter(Popped, ev), ev)

\* run_until has nothing more to deliver: the rest of _simulate_step.
Step ==
  /\ InStep
  /\ ~Deliverable(bus, RunUntilTime(World))
  /\ now < MaxTime
  /\ \E resumed \in {Vmp_resume(World, scn.res)} :
       \E w \in {step_collect(resumed)} :
         /\ Commit(w)
         /\ pc' = IF w.raised # NoExc THEN "raised" ELSE "loop"
         /\ last' = [last EXCEPT !.op = "step", !.ev = NoEvent, !.allocations = <<>>,
                                  !.pub0 = published, !.calls = @ + 1]
  /\ UNCHANGED scn

\* run() returns: should_exit() is true at the loop test.
Return ==
  /\ pc = "loop"
  /\ should_exit(World)
  /\ pc' = "returned"
  /\ last' = [last EXCEPT !.op = "return", !.ev = NoEvent, !.allocations = <<>>,
                           !.pub0 = published]
  /\ UNCHANGED <<scn, now, bus, counts, vmm, vm_pm, vm_state, os, apps, raised,
                 alloc_log, published, cp>>

Next ==
  \/ DeliverArrive
  \/ DeliverAccept
  \/ DeliverReject
  \/ DeliverExecute
  \/ DeliverLog
  \/ DeliverLifecycle
  \/ Step
  \/ Return

Spec == Init /\ [][Next]_vars

\* ------------------------------------------------------------ SpecRun
\* run(duration) on the scenarios of Spec, with a duration of 1 to MaxDuration and
\* a CLOCK_RESOLUTION of 1 to MaxResolution.
MaxDuration == 3
MaxResolution == 2

InitRun ==
  \E s \in Scenarios, d \in 1 .. MaxDuration, r \in 1 .. MaxResolution :
    Constructed([hosts |-> s.hosts, vms |-> s.vms, apps |-> s.apps, reqs |-> s.reqs,
                 res |-> r, duration |-> d])

SpecRun == InitRun /\ [][Next]_vars

\* ------------------------------------------------------ scenarios of SpecCP
\* A cluster of three worker nodes (the third is OFF), run by a control plane of
\* either variant, and three deployments: one container without GPU, two
\* containers, one container that wants the GPU.
PoolNodes ==
  << [CPU |-> 2, RAM |-> 2, GPU |-> GpuNone, state |-> "ON"],
     [CPU |-> 2, RAM |-> 2, GPU |-> <<1, 1>>, state |-> "ON"],
     [CPU |-> 2, RAM |-> 2, GPU |-> GpuNone, state |-> "OFF"] >>

ContainerSpec(name, gpu) ==
  [NAME |-> name, LENGTH |-> <<1>>, CPU |-> <<1, 1>>, RAM |-> <<1, 1>>, GPU |-> gpu]

PoolDeployments(variant) ==
  IF variant = "fractional"
  THEN << [CONTAINER_SPECS |-> <<ContainerSpec("a", 0)>>, replicas |-> 2],
          [CONTAINER_SPECS |-> <<ContainerSpec("b1", 1), ContainerSpec("b2", 1)>>,
           replicas |-> 1],
          [CONTAINER_SPECS |-> <<ContainerSpec("c", GpuWhole)>>, replicas |-> 1] >>
  ELSE << [CONTAINER_SPECS |-> <<ContainerSpec("a", GpuNone)>>, replicas |-> 2],
          [CONTAINER_SPECS |-> <<ContainerSpec("b1", GpuNone), ContainerSpec("b2", GpuNone)>>,
           replicas |-> 1],
          [CONTAINER_SPECS |-> <<ContainerSpec("c", <<1, 1>>)>>, replicas |-> 1] >>

Cluster(variant) ==
  [nodes |-> PoolNodes, deployments |-> PoolDeployments(variant), variant |-> variant,
   LENGTH |-> <<1>>, res |-> 1]

\* The state after Controller(NODES, CONTROL_PLANE) was built (a worker app is
\* scheduled on every node, the control plane is constructed) and the nodes were
\* placed: the simulation is inside run_until, where the user's actions execute.
ConstructedCluster(s) ==
  /\ scn = s
  /\ now = 0
  /\ bus = <<>>
  /\ published = 0
  /\ counts = [requests |-> 0, accepted |-> 0, rejected |-> 0]
  /\ vmm = <<>>
  /\ vm_pm = <<>>
  /\ vm_state = [n \in DOMAIN s.nodes |-> s.nodes[n].state]
  /\ os = [n \in DOMAIN s.nodes |-> [running |-> <<n>>, stopped |-> <<>>]]
  /\ apps = [n \in DOMAIN s.nodes |->
               App_init([kind |-> "app", NAME |-> "worker", LENGTH |-> s.LENGTH,
                         EXPIRATION |-> None])]
  /\ pc = "run_until"
  /\ raised = NoExc
  /\ last = NoLast
  /\ alloc_log = <<>>
  /\ cp = ControlPlane_init(s)

\* The fifth concrete scenario: two ON worker nodes with room for one replica each
\* (CPU 1, RAM 1) and one deployment of one container that desires 3 replicas.
DegradeCluster ==
  [nodes |-> << [CPU |-> 1, RAM |-> 1, GPU |-> GpuNone, state |-> "ON"],
                [CPU |-> 1, RAM |-> 1, GPU |-> GpuNone, state |-> "ON"] >>,
   deployments |-> << [CONTAINER_SPECS |-> <<ContainerSpec("a", GpuNone)>>, replicas |-> 3] >>,
   variant |-> "discrete", LENGTH |-> <<1>>, res |-> 1]

\* Two identical ON worker nodes with room for two replicas each (CPU 2, RAM 2, no
\* GPU) under the fractional control plane, and one deployment of one container
\* without GPU share that desires 2 replicas.
BalanceCluster ==
  [nodes |-> << [CPU |-> 2, RAM |-> 2, GPU |-> GpuNone, state |-> "ON"],
                [CPU |-> 2, RAM |-> 2, GPU |-> GpuNone, state |-> "ON"] >>,
   deployments |-> << [CONTAINER_SPECS |-> <<ContainerSpec("a", 0)>>, replicas |-> 2] >>,
   variant |-> "fractional", LENGTH |-> <<1>>, res |-> 1]

InitCP ==
  \/ \E variant \in {"discrete", "fractional"} : ConstructedCluster(Cluster(variant))
  \/ ConstructedCluster(DegradeCluster)
  \/ ConstructedCluster(BalanceCluster)

\* ------------------------------------------------------- actions of SpecCP
\* A call of the user or of the simulation into the cluster.
CanCall == pc = "run_until" /\ raised = NoExc /\ last.calls < MaxCalls

\* The call has returned (or raised): `last` keeps its name and its arguments.
CalledWith(w, op, args) ==
  /\ Commit(w)
  /\ pc' = IF w.raised # NoExc THEN "raised" ELSE "run_until"
  /\ last' = [last EXCEPT !.op = op, !.ev = NoEvent, !.allocations = args,
                           !.pub0 = published, !.calls = @ + 1]
  /\ UNCHANGED scn

Called(w, op) == CalledWith(w, op, <<>>)

\* CONTROL_PLANE.apply(deployment)
Apply ==
  /\ CanCall
  /\ \E d \in DEPLOYMENTS : CalledWith(apply(World, d), "apply", <<d>>)

\* CONTROL_PLANE.scale(deployment, replicas)
Scale ==
  /\ CanCall
  /\ \E d \in DEPLOYMENTS, replicas \in 0 .. MaxReplicas :
       CalledWith(scale(World, d, replicas), "scale", <<d, replicas>>)

\* CONTROL_PLANE.delete(deployment) and CONTROL_PLANE.delete(deployment, num_replicas)
Delete ==
  /\ CanCall
  /\ \E d \in DEPLOYMENTS, num_replicas \in {None} \cup (1 .. MaxReplicas) :
       CalledWith(delete(World, d, num_replicas), "delete", <<d, num_replicas>>)

\* Controller.resume calls CONTROL_PLANE.manage()
Manage ==
  /\ CanCall
  /\ Called(manage(World), "manage")

\* OsTimeShared.resume on a node finds a running container stopped: it is
\* terminated and its .stop event is published.
ContainerStop ==
  /\ CanCall
  /\ \E v \in NODES :
       \E c \in Range(os[v].running) :
         /\ apps[c].kind = "container"
         /\ Called(Os_terminate_all(World, v, <<c>>, StopKind(World, os[v].running)),
                   "stop")

\* run_until delivers a container.stop event: to _delete_container, subscribed when
\* the controller was built, and then to the log formatter of the simulation.
container_stop(w, ev) ==
  IF w.raised # NoExc THEN w ELSE log_formatter(w, ev)

DeliverContainerStop ==
  /\ cp # NoControlPlane
  /\ CanDeliver({"container.stop"})
  /\ LET ev == bus[NextIdx(bus)]
     IN Delivered(container_stop(delete_container(Popped, ev.args[1], ev.args[2]), ev), ev)

NextCP ==
  \/ Apply
  \/ Scale
  \/ Delete
  \/ Manage
  \/ ContainerStop
  \/ DeliverContainerStop
  \/ DeliverLifecycle
  \/ DeliverLog

SpecCP == InitCP /\ [][NextCP]_vars

\* ------------------------------------------------------------ SpecApp
\* One app, resumed directly: its LENGTH has up to MaxThreads threads of 1 to
\* MaxLength cycles, it may expire, and every call passes a budget vector of up to
\* MaxCores cores with 0 to MaxBudget cycles each; the clock may advance between
\* the calls.
MaxThreads == 2
MaxLength == 3
MaxCores == 2
MaxBudget == 3
MaxResumes == 3
MaxExpiration == 2

Lengths == UNION {[1 .. n -> 1 .. MaxLength] : n \in 1 .. MaxThreads}
Budgets == UNION {[1 .. n -> 0 .. MaxBudget] : n \in 1 .. MaxCores}

InitApp ==
  \E length \in Lengths, expiration \in {None} \cup (1 .. MaxExpiration) :
    Constructed([hosts |-> <<>>, vms |-> <<>>,
                 apps |-> << [vm |-> 0, kind |-> "app", NAME |-> "app", LENGTH |-> length,
                              EXPIRATION |-> expiration] >>,
                 reqs |-> <<>>, res |-> 1])

\* app.resume(cpu): `last` keeps the budget vector and the returned consumed_cycles.
AppResume ==
  /\ last.calls < MaxResumes
  /\ \E cpu \in Budgets :
       /\ apps' = [apps EXCEPT ![1] = App_resume(apps[1], cpu, now).app]
       /\ last' = [NoLast EXCEPT !.op = "resume", !.allocations = cpu,
                                 !.outcome = App_resume(apps[1], cpu, now).consumed,
                                 !.calls = last.calls + 1]
  /\ UNCHANGED <<scn, now, bus, counts, vmm, vm_pm, vm_state, os, pc, raised, alloc_log,
                 published, cp>>

\* cloca.increase(1) between two calls
ClockIncrease ==
  /\ now < MaxExpiration
  /\ now' = now + 1
  /\ UNCHANGED <<scn, bus, counts, vmm, vm_pm, vm_state, os, apps, pc, raised, last,
                 alloc_log, published, cp>>

NextApp == AppResume \/ ClockIncrease

SpecApp == InitApp /\ [][NextApp]_vars

\* ------------------------------------------------------------ SpecVMM
\* The VMM of one host, called directly: allocate, deallocate and resume with any
\* short list of VMs.  The host has three cores, RAM 4 and one GPU of 8 memory
\* blocks; the VMs all ask for one core, RAM 1 and the GPU profile (1, 4).  VM 4
\* carries the same NAME as VM 1.  VMs 1 and 2 have two apps scheduled.
MaxVmmCalls == 4
MaxBatch == 2

GpuHost ==
  [hosts |-> << [CPU |-> <<1, 1, 1>>, RAM |-> 4, GPU |-> << <<1, 8>> >>] >>,
   vms |-> << [NAME |-> "g1", CPU |-> 1, RAM |-> 1, GPU |-> <<1, 4>>],
              [NAME |-> "g2", CPU |-> 1, RAM |-> 1, GPU |-> <<1, 4>>],
              [NAME |-> "g3", CPU |-> 1, RAM |-> 1, GPU |-> <<1, 4>>],
              [NAME |-> "g1", CPU |-> 1, RAM |-> 1, GPU |-> <<1, 4>>] >>,
   apps |-> << [vm |-> 1, kind |-> "app", NAME |-> "long", LENGTH |-> <<3>>,
                EXPIRATION |-> None],
               [vm |-> 1, kind |-> "app", NAME |-> "short", LENGTH |-> <<1>>,
                EXPIRATION |-> None],
               [vm |-> 2, kind |-> "app", NAME |-> "long", LENGTH |-> <<3>>,
                EXPIRATION |-> None],
               [vm |-> 2, kind |-> "app", NAME |-> "short", LENGTH |-> <<1>>,
                EXPIRATION |-> None] >>,
   reqs |-> <<>>,
   res |-> 1]

InitVMM == Constructed(GpuHost)

\* The lists of VMs a call is made with.
Batches == UNION {[1 .. n -> VMS] : n \in 1 .. MaxBatch}

CanCallVmm == pc = "loop" /\ raised = NoExc /\ last.calls < MaxVmmCalls

\* The call has returned (or raised): `last` keeps its name, argument and result.
CalledVmm(w, op, vs) ==
  /\ Commit(w)
  /\ pc' = IF w.raised # NoExc THEN "raised" ELSE "loop"
  /\ last' = [NoLast EXCEPT !.op = op, !.allocations = vs, !.outcome = w.ret,
                            !.pub0 = published, !.calls = last.calls + 1]
  /\ UNCHANGED scn

\* HOST.VMM.allocate(vms)
VmmAllocate ==
  /\ CanCallVmm
  /\ \E vs \in Batches : \E w \in Vmm_allocate(World, 1, vs) : CalledVmm(w, "allocate", vs)

\* HOST.VMM.deallocate(vms)
VmmDeallocate ==
  /\ CanCallVmm
  /\ \E vs \in Batches : CalledVmm(Vmm_deallocate(World, 1, vs), "deallocate", vs)

\* HOST.VMM.resume(1)
VmmResume ==
  /\ CanCallVmm
  /\ CalledVmm(Vmm_resume(World, 1, 1), "resume", <<>>)

\* vm.turn_on() followed by vm.turn_off()
VmTurnOnOff ==
  /\ CanCallVmm
  /\ \E v \in VMS : CalledVmm(turn_off(turn_on(World, v), v), "turn_on_off", <<v>>)

NextVMM == VmmAllocate \/ VmmDeallocate \/ VmmResume \/ VmTurnOnOff

SpecVMM == InitVMM /\ [][NextVMM]_vars


\* ================================================================ claims
AtBoundary == pc \in {"loop", "returned"}

\* The cores, RAM and blocks of GPU g that the VMM of host h holds for its guests.
GuestCores(h) == UNION {vmm[h].vm_cpu[v] : v \in (DOMAIN vmm[h].vm_cpu) \cap Range(vmm[h].guests)}
GuestRam(h) == SumSeq([i \in DOMAIN vmm[h].guests |-> Vm(vmm[h].guests[i]).RAM])
GuestBlocks(h, g) ==
  UNION {vmm[h].vm_gpu[v][2] : v \in {x \in (DOMAIN vmm[h].vm_gpu) \cap Range(vmm[h].guests) :
                                       vmm[h].vm_gpu[x][1] = g}}

\* C1: at every step boundary, on every host, the free cores and the guests' core
\* sets are pairwise disjoint and make up the host's cores; free RAM plus the guests'
\* RAM is the host's RAM; per GPU the free blocks and the guests' blocks make up the
\* GPU's blocks.  (Stated as claimed; the code violates it.)
C1_HostAccounting ==
  AtBoundary =>
    \A h \in HOSTS :
      LET m == vmm[h]
      IN /\ \A i \in DOMAIN m.guests :
              /\ m.guests[i] \in DOMAIN m.vm_cpu
              /\ m.vm_cpu[m.guests[i]] \cap m.free_cpu = {}
              /\ \A j \in DOMAIN m.guests :
                   i # j => m.vm_cpu[m.guests[i]] \cap m.vm_cpu[m.guests[j]] = {}
         /\ m.free_cpu \cup GuestCores(h) = {c - 1 : c \in DOMAIN scn.hosts[h].CPU}
         /\ m.free_ram + GuestRam(h) = scn.hosts[h].RAM
         /\ \A g \in DOMAIN m.free_gpu :
              /\ m.free_gpu[g] \cap GuestBlocks(h, g) = {}
              /\ m.free_gpu[g] \cup GuestBlocks(h, g) = 0 .. (scn.hosts[h].GPU[g][2] - 1)

\* C2: the placement map is a partial function vm -> host and no VM is in the guest
\* lists twice, on one host or on two.  (Stated as claimed; the code violates it.)
C2_OneGuestEntry ==
  /\ DOMAIN vm_pm \subseteq VMS
  /\ \A v \in DOMAIN vm_pm : vm_pm[v] \in HOSTS
  /\ \A v \in VMS : SumSeq([h \in HOSTS |-> Count(vmm[h].guests, v)]) <= 1

\* The requests of the scenario that are not IGNORED and satisfy P.
Counted(P(_)) == Cardinality({i \in DOMAIN scn.reqs : ~Req(i).IGNORED /\ P(i)})

\* C3: at every step boundary of a run that raised nothing, requests = accepted +
\* rejected, and the three counters count exactly the non-ignored requests that
\* arrived, were allocated and were not allocated.
C3_TrackerAccounting ==
  AtBoundary =>
    /\ counts.requests = counts.accepted + counts.rejected
    /\ counts.requests = Counted(LAMBDA i : i \in DOMAIN last.outcome)
    /\ counts.accepted = Counted(LAMBDA i : i \in DOMAIN last.outcome /\ last.outcome[i])
    /\ counts.rejected = Counted(LAMBDA i : i \in DOMAIN last.outcome /\ ~last.outcome[i])
    /\ \A i \in DOMAIN scn.reqs : Req(i).ARRIVAL < now => i \in DOMAIN last.outcome

C3_Witness ==
  /\ AtBoundary
  /\ counts.rejected >= 1
  /\ \E i \in DOMAIN last.outcome : Req(i).IGNORED /\ last.outcome[i]

\* The rejected REQUIRED requests of the group the last request.arrive delivered.
RequiredRejected ==
  {k \in DOMAIN last.ev.args :
     k <= Len(last.allocations) /\ ~last.allocations[k] /\ Req(last.ev.args[k]).REQUIRED}

C4_Raises ==
  /\ (last.op = "request.arrive" /\ RequiredRejected # {}) =>
        /\ pc = "raised"
        /\ raised = <<"AssertionError", Req(last.ev.args[MinOf(RequiredRejected)]).VM>>
  /\ (raised # NoExc /\ raised[1] = "AssertionError") =>
        /\ last.op = "request.arrive"
        /\ RequiredRejected # {}
  /\ (last.op = "request.arrive" /\ RequiredRejected = {}) =>
        /\ pc = "run_until"
        /\ \E e \in DOMAIN bus :
             /\ bus[e].topic = "request.reject"
             /\ bus[e].seq > last.pub0
             /\ bus[e].time = now
             /\ bus[e].args = Outcome(last.ev.args, last.allocations, FALSE)

\* C4: a request.arrive delivery raises exactly when a REQUIRED request of its group
\* was not allocated, the error names the first such VM, and no step follows a raise;
\* a rejection without REQUIRED raises nothing and goes out on request.reject.
C4_RequiredRejectionIsFatal == []C4_Raises /\ [][pc = "raised" => UNCHANGED vars]_vars

C4_Witness ==
  /\ pc = "raised"
  /\ raised[1] = "AssertionError"
  /\ \E k \in DOMAIN last.allocations : last.allocations[k]

LexLeq(a, b) == a[1] < b[1] \/ (a[1] = b[1] /\ a[2] <= b[2])

\* C8: no event is delivered before its fire time, deliveries are in non-decreasing
\* fire time with equal times in publication order, and every event published has a
\* fire time >= the clock at publication.
C8_EventCausality ==
  /\ \A e \in DOMAIN bus : bus[e].time >= bus[e].at
  /\ last.ev # NoEvent => (last.ev.time <= now /\ last.ev.time >= last.ev.at)
  /\ LexLeq(last.pdl, last.dl)

C8_Witness ==
  /\ last.ev # NoEvent
  /\ last.ev.time < now
  /\ last.pdl[1] = last.dl[1]
  /\ last.pdl[2] < last.dl[2]
  /\ bus # <<>>

\* C9: when run() has returned the bus is empty, requests = accepted + rejected and
\* the placement map is empty (the loop returns in no other state).
C9_ReturnsOnlyWhenComplete ==
  pc = "returned" =>
    /\ bus = <<>>
    /\ counts.requests = counts.accepted + counts.rejected
    /\ DOMAIN vm_pm = {}

C9_Witness == pc = "returned" /\ counts.accepted >= 1 /\ now >= 3

\* Whether the VMM state m of a host with the given cores fits VM v: enough free
\* cores, enough free RAM and, for a GPU profile, a run of `blocks` free blocks.
Fits(m, v) ==
  /\ Cardinality(m.free_cpu) >= Vm(v).CPU
  /\ m.free_ram >= Vm(v).RAM
  /\ Vm(v).GPU # <<>> =>
       \E g \in DOMAIN m.free_gpu : \E start \in m.free_gpu[g] :
         \A b \in 0 .. (Vm(v).GPU[2] - 1) : start + b \in m.free_gpu[g]

\* The VMM states after entry k of alloc_log (the states entry k + 1 saw).
PostOf(k) == IF k = Len(alloc_log) THEN vmm ELSE alloc_log[k + 1].pre

\* C10: Vmp.allocate gives one result per VM in input order; a VM goes to the first
\* host, in declaration order, that fits it in the state left by the VMs before it,
\* is recorded in the map and announced by vm.allocate; it is rejected only if no
\* host fits.
C10_FirstFit ==
  last.op = "request.arrive" =>
    /\ Len(alloc_log) = Len(last.ev.args)
    /\ Len(last.allocations) = Len(last.ev.args)
    /\ \A k \in DOMAIN alloc_log :
         LET e == alloc_log[k]
         IN /\ e.vm = Req(last.ev.args[k]).VM
            /\ last.allocations[k] = (e.host # 0)
            /\ e.host = 0 => /\ \A h \in HOSTS : ~Fits(e.pre[h], e.vm)
                             /\ PostOf(k) = e.pre
            /\ e.host # 0 =>
                 /\ e.host \in HOSTS
                 /\ Fits(e.pre[e.host], e.vm)
                 /\ \A h \in HOSTS : h < e.host => ~Fits(e.pre[h], e.vm)
                 /\ \A h \in HOSTS \ {e.host} : PostOf(k)[h] = e.pre[h]
                 /\ PostOf(k)[e.host].free_ram = e.pre[e.host].free_ram - Vm(e.vm).RAM
                 /\ Cardinality(PostOf(k)[e.host].free_cpu)
                      = Cardinality(e.pre[e.host].free_cpu) - Vm(e.vm).CPU
                 /\ PostOf(k)[e.host].guests = Append(e.pre[e.host].guests, e.vm)
                 /\ \E b \in DOMAIN bus :
                      /\ bus[b].topic = "vm.allocate"
                      /\ bus[b].args = <<e.host, e.vm>>
                      /\ bus[b].time = now
                      /\ bus[b].seq > last.pub0
                      /\ Cardinality({c \in DOMAIN bus : c <= b /\ bus[c].seq > last.pub0
                                                         /\ bus[c].topic = "vm.allocate"})
                           = Cardinality({j \in 1..k : alloc_log[j].host # 0})
                 /\ (\A j \in DOMAIN alloc_log : (j > k /\ alloc_log[j].vm = e.vm) =>
                                                   alloc_log[j].host = 0)
                      => (e.vm \in DOMAIN vm_pm /\ vm_pm[e.vm] = e.host)

C10_Witness ==
  /\ last.op = "request.arrive"
  /\ \E k \in DOMAIN alloc_log : alloc_log[k].host = 2
  /\ \E k \in DOMAIN alloc_log : alloc_log[k].host = 1

\* ------------------------------------------------------- the node ledgers
\* The ledger the control plane starts from: the declared capacity of each node.
Declared == ControlPlane_init(scn)

\* The containers in the running list of a node's OS.
RunningContainers(n) == {c \in Range(os[n].running) : apps[c].kind = "container"}

\* Every container some deployment created, and those the control plane records.
Created == {c \in DOMAIN apps : apps[c].kind = "container"}
Recorded == DOMAIN cp.container_node

\* C5: for every worker node and deployment of either variant, once the replicas
\* that were deployed have all been deleted again (by delete or by container.stop),
\* so that the control plane records no container any more, the node's CPU, RAM
\* and GPU ledger entries equal the node's declared capacity.
C5_LedgerRestored ==
  (raised = NoExc /\ Created # {} /\ Recorded = {})
    => \A n \in NODES :
         /\ cp.node_cpu[n] = Declared.node_cpu[n]
         /\ cp.node_ram[n] = Declared.node_ram[n]
         /\ cp.node_gpu[n] = Declared.node_gpu[n]

\* C6: after any sequence of apply, scale, delete, manage and container stops, the
\* CPU and RAM of every node's ledger stay between zero and the declared capacity,
\* and in the fractional variant the free GPU share stays between 0 and its
\* initial value.
C6_LedgerWithinCapacity ==
  \A n \in NODES :
    /\ 0 <= cp.node_cpu[n] /\ cp.node_cpu[n] <= Declared.node_cpu[n]
    /\ 0 <= cp.node_ram[n] /\ cp.node_ram[n] <= Declared.node_ram[n]
    /\ Fractional => (0 <= cp.node_gpu[n] /\ cp.node_gpu[n] <= Declared.node_gpu[n])

\* C7: after any sequence of apply, scale, delete, manage and container stops, every
\* container in the running list of a node's OS is recorded by the control plane
\* on exactly that node, and the running containers' CPU and RAM are deducted from
\* that node's ledger; so a container removed by delete or by a scale-down runs on
\* no node.
C7_RunningIsRecorded ==
  \A n \in NODES :
    /\ \A c \in RunningContainers(n) : c \in Recorded /\ cp.container_node[c] = n
    /\ cp.node_cpu[n] + SumSeq([i \in DOMAIN os[n].running |->
                                  IF apps[os[n].running[i]].kind = "container"
                                  THEN apps[os[n].running[i]].CPU[1] ELSE 0])
         <= Declared.node_cpu[n]
    /\ cp.node_ram[n] + SumSeq([i \in DOMAIN os[n].running |->
                                  IF apps[os[n].running[i]].kind = "container"
                                  THEN apps[os[n].running[i]].RAM[1] ELSE 0])
         <= Declared.node_ram[n]


\* ------------------------------------------------- the first concrete scenario
\* The events of a topic that wait on the bus.
OnBus(topic) == {i \in DOMAIN bus : bus[i].topic = topic}

\* What the scenario expects of the placement and of the end of the run: vm.allocate
\* is published for T=0, and run() returns with requests=1, accepted=1, rejected=0,
\* the app finished and the VM deallocated (OFF, in no placement map).
C11_PlacedAndCounted ==
  /\ \A i \in OnBus("vm.allocate") : bus[i].time = 0 /\ bus[i].args = <<1, 1>>
  /\ pc = "returned" =>
       /\ counts = [requests |-> 1, accepted |-> 1, rejected |-> 0]
       /\ apps[1].remained = <<0>>
       /\ vm_state[1] = "OFF"
       /\ vm_pm = <<>>
       /\ vmm[1].guests = <<>>

\* C11 as stated: in the single-VM single-app scenario vm.allocate is published at
\* T=0, the app stops at T=100, the VM is deallocated afterwards and the final
\* stats are requests=1, accepted=1, rejected=0.
C11_StopsAt100 ==
  scn = SingleVmSingleApp =>
    /\ C11_PlacedAndCounted
    /\ \A i \in OnBus("app.stop") : bus[i].time = 100
    /\ now <= 100 => apps[1].remained # <<0>>

\* C11 amended: in the single-VM single-app scenario vm.allocate is published at
\* T=0, the app stops at T=0 (the core gives 100 cycles per tick, so the first step
\* runs the whole app: app.stop and vm.deallocate are published for T=0 and from
\* T=1 on the app is finished and the VM is OFF), and the final stats are
\* requests=1, accepted=1, rejected=0.
C11_StopsAtZero ==
  scn = SingleVmSingleApp =>
    /\ C11_PlacedAndCounted
    /\ \A i \in OnBus("app.stop") : bus[i].time = 0 /\ bus[i].args = <<1, 1>>
    /\ \A i \in OnBus("vm.deallocate") : bus[i].time = 0 /\ bus[i].args = <<1, 1>>
    /\ now >= 1 =>
         /\ apps[1].remained = <<0>>
         /\ vm_state[1] = "OFF"

\* The first step of the scenario has run: app.stop and vm.deallocate wait on the
\* bus and the clock shows 1.
C11_Witness ==
  /\ scn = SingleVmSingleApp
  /\ now = 1
  /\ OnBus("app.stop") # {}
  /\ OnBus("vm.deallocate") # {}
  /\ counts.accepted = 1


\* ----------------------------------------------------------- GPU block packing
\* The two halves of the 8-block GPU.
LowHalf == 0 .. 3
HighHalf == 4 .. 7

\* allocate([v]) of a VM that is not a guest has just returned.
AllocatedOne(v) ==
  /\ last'.op = "allocate"
  /\ last'.allocations = <<v>>
  /\ raised' = NoExc
  /\ v \notin Range(vmm[1].guests)

\* C12: on the host with one GPU of 8 blocks, a VM of profile (1, 4) is given blocks
\* {0..3} when they are free and else {4..7} when they are free (so the first two
\* VMs hold {0..3} and {4..7}); a further identical VM is rejected while neither
\* half is free, leaving the VMM untouched, and is accepted again once a
\* deallocation has freed a half.
C12_GpuBlockPacking ==
  [][\A v \in VMS :
       AllocatedOne(v) =>
         LET free == vmm[1].free_gpu[1]
             room == vmm[1].free_cpu # {} /\ vmm[1].free_ram >= 1
         IN IF room /\ LowHalf \subseteq free
              THEN /\ last'.outcome = <<TRUE>>
                   /\ vmm'[1].vm_gpu[v] = <<1, LowHalf>>
                   /\ vmm'[1].free_gpu[1] = free \ LowHalf
            ELSE IF room /\ HighHalf \subseteq free
              THEN /\ last'.outcome = <<TRUE>>
                   /\ vmm'[1].vm_gpu[v] = <<1, HighHalf>>
                   /\ vmm'[1].free_gpu[1] = free \ HighHalf
            ELSE /\ last'.outcome = <<FALSE>>
                 /\ vmm' = vmm
                 /\ free \in {{}, LowHalf, HighHalf} \/ ~room]_vars

\* VM 3 was rejected while VMs 1 and 2 held the halves, VM 1 has been deallocated
\* and VM 3 has now been accepted with the blocks VM 1 gave back.
C12_Witness ==
  /\ scn = GpuHost
  /\ last.op = "allocate"
  /\ last.allocations = <<3>>
  /\ last.outcome = <<TRUE>>
  /\ last.calls = 4
  /\ vmm[1].guests = <<2, 3>>
  /\ vmm[1].vm_gpu[2] = <<1, HighHalf>>
  /\ vmm[1].vm_gpu[3] = <<1, LowHalf>>
  /\ vmm[1].free_gpu[1] = {}
  /\ vm_state[1] = "OFF"


\* ------------------------------------------------------- degrade, then run
\* The events of a topic that the step has published.
PublishedNow(topic) ==
  {i \in DOMAIN bus' : bus'[i].seq > published /\ bus'[i].topic = topic}

\* The replica groups the control plane records for a deployment.
Live(c, d) == IF d \in DOMAIN c.deployment_replicas THEN c.deployment_replicas[d] ELSE <<>>

\* Some ON node has room for a replica of d.
HasRoom(d) ==
  \E n \in NODES :
    vm_state[n] = "ON" /\ cp.node_cpu[n] >= 1 /\ cp.node_ram[n] >= 1 /\ cp.node_gpu[n] = GpuNone

\* C13: in the cluster of two ON workers with room for one replica each and a
\* deployment that desires 3 replicas, the first manage after apply deploys 2
\* replicas and publishes deployment.degrade with remaining 1; a manage that finds
\* (d, 1) on the degraded queue and no node with room leaves it there and
\* publishes deployment.degrade again; a manage that finds it after a container
\* stopped and container.stop was handled deploys the missing replica and
\* publishes deployment.run.
C13_DegradeThenRun ==
  [][(scn = DegradeCluster /\ last'.op = "manage" /\ cp.scaled_deployments = <<>>) =>
       /\ (cp.pending_deployments = <<1>> /\ cp.degraded_deployments = <<>>
           /\ Live(cp, 1) = <<>> /\ cp.replicas[1] = 3
           /\ \A n \in NODES : cp.node_cpu[n] = 1 /\ cp.node_gpu[n] = GpuNone) =>
            /\ raised' = NoExc
            /\ Len(Live(cp', 1)) = 2
            /\ cp'.degraded_deployments = << <<1, 1>> >>
            /\ cp'.pending_deployments = <<>>
            /\ \E i \in PublishedNow("deployment.degrade") :
                 bus'[i].args = <<CLUSTER_CONTROLLER, 1, 1>>
            /\ PublishedNow("deployment.run") = {}
       /\ (cp.degraded_deployments = << <<1, 1>> >> /\ cp.pending_deployments = <<>>) =>
            /\ raised' = NoExc
            /\ IF HasRoom(1)
                 THEN /\ Len(Live(cp', 1)) = Len(Live(cp, 1)) + 1
                      /\ cp'.degraded_deployments = <<>>
                      /\ \E i \in PublishedNow("deployment.run") :
                           bus'[i].args = <<CLUSTER_CONTROLLER, 1>>
                      /\ PublishedNow("deployment.degrade") = {}
                 ELSE /\ Live(cp', 1) = Live(cp, 1)
                      /\ cp'.degraded_deployments = << <<1, 1>> >>
                      /\ \E i \in PublishedNow("deployment.degrade") :
                           bus'[i].args = <<CLUSTER_CONTROLLER, 1, 1>>
                      /\ PublishedNow("deployment.run") = {}]_vars

\* apply, manage (degraded with 1 remaining), a container stopped and its
\* container.stop was handled, manage: the third replica is deployed, nothing is
\* queued and deployment.run waits on the bus.
C13_Witness ==
  /\ scn = DegradeCluster
  /\ last.op = "manage"
  /\ last.calls = 4
  /\ cp.degraded_deployments = <<>>
  /\ cp.pending_deployments = <<>>
  /\ Len(Live(cp, 1)) = 2
  /\ Len(apps) = 5
  /\ \E n \in NODES : os[n].stopped # <<>>
  /\ \E i \in DOMAIN bus : bus[i].topic = "deployment.run" /\ bus[i].seq > last.pub0


\* ------------------------------------------------------------- App.resume
\* C14: App.resume(cpuVec) returns one consumed count per core with
\* 0 <= consumed[i] <= cpuVec[i], the sum of the consumed cycles is the total
\* decrease of the remaining thread cycles, and 0 <= remaining[t] <= LENGTH[t]
\* holds for every thread before and after the call.
C14_ResumeIsConservative ==
  [][last'.op = "resume" /\ last'.calls = last.calls + 1 =>
       LET cpuVec == last'.allocations
           consumed == last'.outcome
           before == apps[1].remained
           after == apps'[1].remained
       IN /\ DOMAIN consumed = DOMAIN cpuVec
          /\ \A i \in DOMAIN cpuVec : 0 <= consumed[i] /\ consumed[i] <= cpuVec[i]
          /\ DOMAIN after = DOMAIN before
          /\ SumSeq(consumed) = SumSeq(before) - SumSeq(after)
          /\ \A t \in DOMAIN before :
               /\ 0 <= before[t] /\ before[t] <= apps[1].LENGTH[t]
               /\ 0 <= after[t] /\ after[t] <= before[t]]_vars

\* A call that spent two cores on two threads and left the app unfinished.
C14_Witness ==
  /\ last.op = "resume"
  /\ Len(last.outcome) = 2
  /\ last.outcome[1] > 0
  /\ last.outcome[2] > 0
  /\ Len(apps[1].remained) = 2
  /\ apps[1].remained[1] < apps[1].LENGTH[1]
  /\ apps[1].remained[2] < apps[1].LENGTH[2]
  /\ apps[1].remained[2] > 0


\* ------------------------------------------------------- turn on, turn off
\* The call that has just returned turned the VM off: turn_on() then turn_off()
\* on it, or a deallocate whose result for it is true.
TurnedOff(v) ==
  \/ last'.op = "turn_on_off" /\ last'.allocations = <<v>>
  \/ /\ last'.op = "deallocate"
     /\ raised' = NoExc
     /\ \E i \in DOMAIN last'.allocations :
          last'.allocations[i] = v /\ last'.outcome[i] = TRUE

\* C15: turning a VM on and then off, and likewise VMM.deallocate of a guest,
\* leaves the VM OFF with an OS that has no running and no stopped apps, whatever
\* apps were scheduled, running or terminated on it before.
C15_TurnOffCleansOs ==
  [][\A v \in VMS :
       TurnedOff(v) =>
         /\ vm_state'[v] = "OFF"
         /\ os'[v].running = <<>>
         /\ os'[v].stopped = <<>>]_vars

\* VM 1 was allocated and resumed, so that its short app terminated and its long
\* app still ran, and has been deallocated.
C15_Witness ==
  /\ scn = GpuHost
  /\ last.op = "deallocate"
  /\ last.allocations = <<1>>
  /\ last.outcome = <<TRUE>>
  /\ apps[2].remained = <<0>>
  /\ apps[1].remained = <<3>>
  /\ apps[1].resumed
  /\ vm_state[1] = "OFF"
  /\ os[1] = [running |-> <<>>, stopped |-> <<>>]


\* --------------------------------------------------- deallocate of a non-guest
\* C16: VMM.deallocate of VMs that are not guests of the VMM yields false at their
\* positions, raises nothing and leaves the free cores, the free RAM, the free GPU
\* blocks and the guest list unchanged.
C16_UnknownGuestIsFalse ==
  [][(/\ last'.op = "deallocate"
      /\ \A i \in DOMAIN last'.allocations :
           last'.allocations[i] \notin Range(vmm[1].guests)) =>
       /\ raised' = NoExc
       /\ last'.outcome = [i \in DOMAIN last'.allocations |-> FALSE]
       /\ vmm' = vmm]_vars


\* ------------------------------------------------------------ run(duration)
\* The number of steps run(d) is to perform: ceil(d / CLOCK_RESOLUTION).
StepsOf(d, resolution) == (d + resolution - 1) \div resolution

RECURSIVE ContainersOf(_)
ContainersOf(groups) ==
  IF groups = <<>> THEN {} ELSE Range(Head(groups)) \cup ContainersOf(Tail(groups))

\* What a set of containers requests on a node: CPU (field 1) or RAM (field 2).
RECURSIVE Requested(_, _, _)
Requested(cs, node, field) ==
  IF cs = {} THEN 0
  ELSE LET c == CHOOSE x \in cs : TRUE
       IN (IF cp.container_node[c] # node THEN 0
           ELSE IF field = 1 THEN apps[c].CPU[1] ELSE apps[c].RAM[1])
          + Requested(cs \ {c}, node, field)

\* C18: delete(deployment, n) removes up to n replica groups from the tail of the
\* deployment's live replica list (all of them when n is omitted), releases every
\* removed container's resources to its node's ledger, and publishes
\* deployment.stop when the replica list becomes empty as a result.
C18_DeleteReleasesAndStops ==
  [][\A d \in DEPLOYMENTS, n \in {None} \cup (1 .. MaxReplicas) :
       (last'.op = "delete" /\ last'.allocations = <<d, n>> /\ Live(cp, d) # <<>>) =>
         LET live == Len(Live(cp, d))
             k == IF n = None \/ n > live THEN live ELSE n
             removed == ContainersOf(SubSeq(Live(cp, d), live - k + 1, live))
         IN /\ raised' = NoExc
            /\ Live(cp', d) = SubSeq(Live(cp, d), 1, live - k)
            /\ \A node \in NODES :
                 /\ cp'.node_cpu[node] = cp.node_cpu[node] + Requested(removed, node, 1)
                 /\ cp'.node_ram[node] = cp.node_ram[node] + Requested(removed, node, 2)
            /\ k = live =>
                 \E i \in PublishedNow("deployment.stop") :
                   bus'[i].args = <<CLUSTER_CONTROLLER, d>>]_vars


\* ------------------------------------------------------ the pending phase
\* The events the step has published, in publish order.
NewEvents == SubSeq(bus', Len(bus) + 1, Len(bus'))

\* The replicas an entry of the pending queue got, as its event tells.
DeployedBy(d, ev) ==
  IF ev.topic = "deployment.pend" THEN 0
  ELSE IF ev.topic = "deployment.degrade" THEN cp.replicas[d] - ev.args[3]
  ELSE cp.replicas[d]

\* The entries of the queue q whose event has the topic, in queue order, as they
\* are enqueued again: d on pending, <<d, shortfall>> on degraded.
RECURSIVE Requeued(_, _, _)
Requeued(q, evs, topic) ==
  IF q = <<>> THEN <<>>
  ELSE (IF Head(evs).topic # topic THEN <<>>
        ELSE IF topic = "deployment.degrade" THEN << <<Head(q), Head(evs).args[3]>> >>
        ELSE <<Head(q)>>)
       \o Requeued(Tail(q), Tail(evs), topic)

\* The replicas the entries of deployment d got, summed over the queue.
RECURSIVE DeployedFor(_, _, _)
DeployedFor(q, evs, d) ==
  IF q = <<>> THEN 0
  ELSE (IF Head(q) = d THEN DeployedBy(d, Head(evs)) ELSE 0)
       + DeployedFor(Tail(q), Tail(evs), d)

\* C19: in the pending phase of manage (seen alone: nothing is on the scaled or the
\* degraded queue) each deployment on the pending queue is attempted exactly once,
\* in apply order, and has exactly one event: deployment.pend when no replica was
\* deployed, and it is on pending again; deployment.degrade with the shortfall
\* when some but fewer than the desired replicas were deployed, and (deployment,
\* shortfall) is on degraded; deployment.run when all were deployed, and it is on
\* no queue.
C19_PendingPhase ==
  [][(/\ last'.op = "manage"
      /\ cp.scaled_deployments = <<>>
      /\ cp.degraded_deployments = <<>>) =>
       LET q == cp.pending_deployments
       IN /\ raised' = NoExc
          /\ Len(NewEvents) = Len(q)
          /\ \A i \in DOMAIN q :
               /\ NewEvents[i].topic \in {"deployment.pend", "deployment.degrade", "deployment.run"}
               /\ NewEvents[i].args[1] = CLUSTER_CONTROLLER
               /\ NewEvents[i].args[2] = q[i]
               /\ NewEvents[i].topic = "deployment.degrade" =>
                    NewEvents[i].args[3] > 0 /\ NewEvents[i].args[3] < cp.replicas[q[i]]
               /\ NewEvents[i].topic = "deployment.run" => cp.replicas[q[i]] > 0
          /\ cp'.pending_deployments = Requeued(q, NewEvents, "deployment.pend")
          /\ cp'.degraded_deployments = Requeued(q, NewEvents, "deployment.degrade")
          /\ \A d \in DEPLOYMENTS :
               Len(Live(cp', d)) = Len(Live(cp, d)) + DeployedFor(q, NewEvents, d)]_vars

\* Three deployments were applied and one manage left one of them pending, one
\* degraded and one running.
C19_Witness ==
  /\ last.op = "manage"
  /\ last.calls = 4
  /\ Len(cp.pending_deployments) = 1
  /\ Len(cp.degraded_deployments) = 1
  /\ cp.scaled_deployments = <<>>
  /\ \E i \in DOMAIN bus : bus[i].topic = "deployment.run" /\ bus[i].seq > last.pub0
  /\ \E i \in DOMAIN bus : bus[i].topic = "deployment.pend" /\ bus[i].seq > last.pub0
  /\ \E i \in DOMAIN bus : bus[i].topic = "deployment.degrade" /\ bus[i].seq > last.pub0


\* ------------------------------------------------------- the scaled phase
\* The event of the scaled phase for deployment d and the difference delta.
ScaledEvent(ev, d, delta) ==
  IF delta = 0
  THEN ev.topic = "deployment.run" /\ ev.args = <<CLUSTER_CONTROLLER, d>>
  ELSE ev.topic = "deployment.scale" /\ ev.args = <<CLUSTER_CONTROLLER, d, delta>>

\* C20: for a deployment passed to scale, whatever its number of live replicas,
\* the next manage computes delta = desired - live and publishes first of all the
\* event of the scaled phase: deployment.run if delta = 0, deployment.scale
\* otherwise; if delta < 0 it has deleted |delta| replica groups; if delta > 0 it
\* has enqueued (deployment, delta) on degraded, behind the entries already there,
\* and the degraded phase that follows in the same manage has handled it: its
\* deployment.degrade or deployment.run follows, and the live replicas have grown
\* by delta less the shortfall left on degraded.  (The deployment is on no other
\* queue and the pending queue is empty.)
C20_ScaledPhase ==
  [][\A d \in DEPLOYMENTS :
       (/\ last'.op = "manage"
        /\ cp.scaled_deployments = <<d>>
        /\ cp.pending_deployments = <<>>
        /\ \A i \in DOMAIN cp.degraded_deployments : cp.degraded_deployments[i][1] # d) =>
         LET live == Len(Live(cp, d))
             delta == cp.replicas[d] - live
             old == Len(cp.degraded_deployments)
         IN /\ raised' = NoExc
            /\ cp'.scaled_deployments = <<>>
            /\ NewEvents # <<>>
            /\ ScaledEvent(NewEvents[1], d, delta)
            /\ delta <= 0 =>
                 /\ Len(NewEvents) = 1 + old
                 /\ Len(Live(cp', d)) = live + delta
            /\ delta > 0 =>
                 /\ Len(NewEvents) = 2 + old
                 /\ NewEvents[2 + old].args[2] = d
                 /\ \/ /\ NewEvents[2 + old].topic = "deployment.run"
                       /\ Len(Live(cp', d)) = live + delta
                    \/ /\ NewEvents[2 + old].topic = "deployment.degrade"
                       /\ Len(Live(cp', d)) = live + delta - NewEvents[2 + old].args[3]
                       /\ <<d, NewEvents[2 + old].args[3]>> \in Range(cp'.degraded_deployments)]_vars

\* C21: in the discrete variant the GPU check for a container passes when the
\* container requests no GPU, whatever the node's GPU value is, and otherwise passes
\* exactly when the node's free GPU value equals the requested profile.  (Stated on
\* the nodes whose CPU and RAM suffice, where the check is the GPU check.)
C21_DiscreteGpuCheck ==
  (cp # NoControlPlane /\ ~Fractional) =>
    \A n \in NODES, d \in DEPLOYMENTS :
      \A i \in DOMAIN CONTAINER_SPECS(d) :
        (/\ cp.node_cpu[n] >= CONTAINER_SPECS(d)[i].CPU[1]
         /\ cp.node_ram[n] >= CONTAINER_SPECS(d)[i].RAM[1]) =>
          (has_sufficient_resources_for_container(World, CONTAINER_SPECS(d)[i], n)
             <=> \/ CONTAINER_SPECS(d)[i].GPU = GpuNone
                 \/ cp.node_gpu[n] = CONTAINER_SPECS(d)[i].GPU)

\* The containers a step records for a node, and the CPU they request.
NewOn(n) ==
  {c \in DOMAIN cp'.container_node \ DOMAIN cp.container_node : cp'.container_node[c] = n}

RECURSIVE CpuOf(_, _)
CpuOf(as, cs) ==
  IF cs = {} THEN 0
  ELSE LET c == CHOOSE x \in cs : TRUE IN as[c].CPU[1] + CpuOf(as, cs \ {c})

\* C22: placing a replica on a node is all-or-nothing: every container that a
\* manage step records for a node was scheduled on that node's OS and has its CPU
\* deducted from the node's ledger (the ledger is compared on the steps that remove
\* no container); no container is recorded without being scheduled and deducted.
C22_ReplicaAllOrNothing ==
  [][last'.op = "manage" =>
       \A n \in NODES :
         /\ \A c \in NewOn(n) : c \in Range(os'[n].running)
         /\ DOMAIN cp.container_node \subseteq DOMAIN cp'.container_node =>
              cp.node_cpu[n] - cp'.node_cpu[n] = CpuOf(apps', NewOn(n))]_vars

\* ------------------------------------------------------------- SpecOS
\* The OS of one worker node, called directly: OsTimeShared.resume(cpu, duration)
\* with any short core vector and duration, on a running list that mixes plain
\* apps (the worker the controller schedules) and containers.
MaxOsApps == 2
MaxOsDuration == 2
MaxOsCalls == 2

OsApps ==
  {App_init([kind |-> "app", NAME |-> "worker", LENGTH |-> <<l>>, EXPIRATION |-> None]) :
     l \in 1 .. MaxLength}
  \cup {Container([ContainerSpec("a", GpuNone) EXCEPT !.LENGTH = <<l>>]) : l \in 1 .. MaxLength}

\* The state after node.OS.schedule(...) put the apps on the OS of node 1.
ScheduledOs(running) ==
  /\ scn = [hosts |-> <<>>, vms |-> <<>>, apps |-> <<>>, reqs |-> <<>>, res |-> 1]
  /\ now = 0
  /\ bus = <<>>
  /\ published = 0
  /\ counts = [requests |-> 0, accepted |-> 0, rejected |-> 0]
  /\ vmm = <<>>
  /\ vm_pm = <<>>
  /\ vm_state = <<"ON">>
  /\ os = << [running |-> [i \in DOMAIN running |-> i], stopped |-> <<>>] >>
  /\ apps = running
  /\ pc = "loop"
  /\ raised = NoExc
  /\ last = NoLast
  /\ alloc_log = <<>>
  /\ cp = NoControlPlane

InitOS == \E n \in 1 .. MaxOsApps : \E running \in [1 .. n -> OsApps] : ScheduledOs(running)

\* node.OS.resume(cpu, duration): `last` keeps the arguments and the returned vector.
OsResume ==
  /\ last.calls < MaxOsCalls
  /\ \E cpu \in Budgets, duration \in 1 .. MaxOsDuration :
       /\ Commit(Os_resume(World, 1, cpu, duration))
       /\ last' = [NoLast EXCEPT !.op = "resume", !.allocations = <<cpu, duration>>,
                                 !.outcome = Os_resume(World, 1, cpu, duration).ret,
                                 !.pub0 = published, !.calls = last.calls + 1]
  /\ UNCHANGED <<scn, pc>>

NextOS == OsResume

SpecOS == InitOS /\ [][NextOS]_vars

\* The events the step published.
StepEvents == SubSeq(bus', Len(bus) + 1, Len(bus'))

\* C23: when OS.resume terminates an app it publishes '<kind>.stop' with payload
\* (vm, app) where <kind> is the kind of the terminated app itself, also when apps of
\* different kinds stop in the same call: a container.stop event carries a container
\* and every terminated container produces a container.stop.
C23_StopTopicIsOwnKind ==
  [][last'.op = "resume" /\ last'.calls = last.calls + 1 /\ cp = NoControlPlane =>
       /\ \A i \in DOMAIN StepEvents :
            StepEvents[i].topic \in {"app.stop", "container.stop"} =>
              StepEvents[i].topic = apps'[StepEvents[i].args[2]].kind \o ".stop"
       /\ \A a \in Range(os'[1].stopped) \ Range(os[1].stopped) :
            \E i \in DOMAIN StepEvents :
              /\ StepEvents[i].topic = apps'[a].kind \o ".stop"
              /\ StepEvents[i].args = <<1, a>>]_vars

\* The cycles the apps still have to run, over all threads of all apps.
TotalRemained(as) == SumSeq([a \in DOMAIN as |-> SumSeq(as[a].remained)])

\* C24: for every core vector, every duration >= 1 and every list of running apps,
\* OS.resume lets the apps consume on core i at most cpuVec[i] x duration cycles in
\* total (the residual budget of a core never becomes negative), and the returned
\* vector is the per-core sum of the cycles the apps consumed.
C24_ResumeWithinBudget ==
  [][last'.op = "resume" /\ last'.calls = last.calls + 1 /\ cp = NoControlPlane =>
       LET cpuVec == last'.allocations[1]
           duration == last'.allocations[2]
           consumed == last'.outcome
       IN /\ DOMAIN consumed = DOMAIN cpuVec
          /\ \A i \in DOMAIN cpuVec :
               0 <= consumed[i] /\ consumed[i] <= cpuVec[i] * duration
          /\ SumSeq(consumed) = TotalRemained(apps) - TotalRemained(apps')]_vars

\* ------------------------------------------------------- the deploy loop
\* The replica groups of deployment d that the control plane c has on node n.
GroupsOn(c, d, n) ==
  Cardinality({i \in DOMAIN Live(c, d) : c.container_node[Live(c, d)[i][1]] = n})

\* Two ON nodes of the same declared size whose ledger is untouched.
IdenticalEmpty(n1, n2) ==
  /\ vm_state[n1] = "ON" /\ vm_state[n2] = "ON"
  /\ scn.nodes[n1] = scn.nodes[n2]
  /\ \A n \in {n1, n2} :
       /\ cp.node_cpu[n] = Declared.node_cpu[n]
       /\ cp.node_ram[n] = Declared.node_ram[n]
       /\ cp.node_gpu[n] = Declared.node_gpu[n]

\* C25: the deploy loop of a deployment (seen in a manage that finds the deployment
\* alone on the pending queue, without live replicas) never creates more replicas
\* than the count requested, places replicas only on worker nodes that are ON, and
\* stops short of the count only when a full pass placed nothing, that is when no ON
\* node has room for a replica; on identical empty nodes the replica counts of any
\* two nodes differ by at most one.
C25_DeployLoop ==
  [][\A d \in DEPLOYMENTS :
       (/\ last'.op = "manage"
        /\ cp.scaled_deployments = <<>>
        /\ cp.degraded_deployments = <<>>
        /\ cp.pending_deployments = <<d>>
        /\ Live(cp, d) = <<>>) =>
         /\ raised' = NoExc
         /\ Len(Live(cp', d)) <= cp.replicas[d]
         /\ \A n \in NODES : GroupsOn(cp', d, n) > 0 => vm_state[n] = "ON"
         /\ Len(Live(cp', d)) < cp.replicas[d] =>
              \A n \in NODES :
                vm_state[n] = "ON" =>
                  ~has_sufficient_resources_for_deployment([World EXCEPT !.cp = cp'], d, n)
         /\ \A n1, n2 \in NODES :
              IdenticalEmpty(n1, n2) =>
                GroupsOn(cp', d, n1) - GroupsOn(cp', d, n2) \in {-1, 0, 1}]_vars

\* In the cluster of two identical nodes with room for two replicas each, apply and
\* manage placed the two replicas of the deployment on two different nodes.
C25_Witness ==
  /\ scn = BalanceCluster
  /\ last.op = "manage"
  /\ last.calls = 2
  /\ Len(Live(cp, 1)) = 2
  /\ GroupsOn(cp, 1, 1) = 1
  /\ GroupsOn(cp, 1, 2) = 1
  /\ cp.node_cpu = <<1, 1>>

\* ------------------------------------------------------- GPU block ranges
\* A contiguous range of n block indices inside the GPU g of host h.
IsBlockRange(h, g, blocks, n) ==
  /\ g \in DOMAIN scn.hosts[h].GPU
  /\ \E start \in 0 .. (scn.hosts[h].GPU[g][2] - 1) : blocks = start .. (start + n - 1)
  /\ Cardinality(blocks) = n
  /\ blocks \subseteq 0 .. (scn.hosts[h].GPU[g][2] - 1)

\* C26: for every guest VM that requested a GPU profile (units, blocks), the blocks
\* recorded for it are a contiguous range of exactly `blocks` indices inside one
\* physical GPU and are disjoint from the blocks of every other guest on that GPU;
\* the GPU component of has_capacity is true exactly when the VM requests no GPU or
\* some GPU's free set contains such a contiguous range.
C26_GpuBlockRanges ==
  raised = NoExc =>
    \A h \in HOSTS :
      /\ \A v \in Range(vmm[h].guests) :
           Vm(v).GPU # <<>> =>
             /\ v \in DOMAIN vmm[h].vm_gpu
             /\ IsBlockRange(h, vmm[h].vm_gpu[v][1], vmm[h].vm_gpu[v][2], Vm(v).GPU[2])
             /\ \A u \in Range(vmm[h].guests) \ {v} :
                  (u \in DOMAIN vmm[h].vm_gpu /\ vmm[h].vm_gpu[u][1] = vmm[h].vm_gpu[v][1]) =>
                    vmm[h].vm_gpu[u][2] \cap vmm[h].vm_gpu[v][2] = {}
      /\ \A v \in VMS :
           has_capacity(World, h, v)[3]
             <=> \/ Vm(v).GPU = <<>>
                 \/ \E g \in DOMAIN vmm[h].free_gpu :
                      \E blocks \in SUBSET vmm[h].free_gpu[g] :
                        IsBlockRange(h, g, blocks, Vm(v).GPU[2])

\* ------------------------------------------------------------ SpecLive
\* run() is one sequential loop: while it has neither returned nor raised, its next
\* delivery, step or return is taken.  RunEnabled is the enabling condition of Next:
\* an event to deliver, a step to make, or the exit test true at the loop.
RunEnabled ==
  /\ pc \in {"loop", "run_until"}
  /\ \/ Deliverable(bus, RunUntilTime(World))
     \/ now < MaxTime
     \/ (pc = "loop" /\ should_exit(World))

\* WF_vars(Next), written out with RunEnabled for ENABLED <<Next>>_vars.
RunFairness == []<>(~RunEnabled) \/ []<><<Next>>_vars

SpecLive == Init /\ [][Next]_vars /\ WF_vars(Return) /\ RunFairness

\* run() has returned with every arrival delivered, every app of an accepted VM
\* stopped and every accepted VM deallocated and OFF.
RunReturned ==
  /\ pc = "returned"
  /\ bus = <<>>
  /\ Vmp_empty(World)
  /\ \A i \in DOMAIN scn.reqs :
       /\ i \in DOMAIN last.outcome
       /\ last.outcome[i] =>
            /\ vm_state[Req(i).VM] = "OFF"
            /\ \A a \in DOMAIN scn.apps :
                 scn.apps[a].vm = Req(i).VM => is_stopped(apps[a], now)

\* run() has raised for a REQUIRED request that was rejected.
RequiredWasRejected == pc = "raised" /\ raised[1] = "AssertionError"

\* C27: run() without a duration eventually returns in every scenario in which no
\* required request is rejected (the VMs have cores of positive frequency and the
\* apps finite lengths): every arrival is delivered, every app on an accepted VM
\* stops and every accepted VM is deallocated.
C27_RunReturns == <>(RunReturned \/ RequiredWasRejected)

\* C28: for every deployment, after any manage the number of live replica groups
\* does not exceed the deployment's desired replica count, also when scale was
\* called while the deployment still had an entry on the degraded or pending queue.
C28_LiveWithinDesired ==
  [][(last'.op = "manage" /\ raised' = NoExc) =>
       \A d \in DEPLOYMENTS : Len(Live(cp', d)) <= cp'.replicas[d]]_vars


\* ------------------------------------------------------------------ SpecAct
\* The entries a user's REQUESTS list can hold: plain Actions (model.Action: ARRIVAL
\* and EXECUTE; they name no VM, written 0) and Requests (model.Request), each with
\* or without an EXECUTE callback.
ActionEntries ==
  { [class |-> "Action", ARRIVAL |-> a, VM |-> 0, REQUIRED |-> FALSE,
     IGNORED |-> FALSE, EXECUTE |-> e] : a \in 0 .. MaxArrival, e \in BOOLEAN }
  \cup
  { [class |-> "Request", ARRIVAL |-> a, VM |-> v, REQUIRED |-> r,
     IGNORED |-> FALSE, EXECUTE |-> e]
    : a \in 0 .. MaxArrival, v \in DOMAIN PoolVms, r \in BOOLEAN, e \in BOOLEAN }

\* The state after Simulation(NAME, USER, DATACENTER) for a user whose REQUESTS are
\* up to MaxReq such entries, over the hosts, VMs and apps of Spec.
InitAct ==
  \E r \in UNION { [1 .. n -> ActionEntries] : n \in 0 .. MaxReq } :
    Constructed([hosts |-> PoolHosts, vms |-> PoolVms, apps |-> PoolApps,
                 reqs |-> r, res |-> 1])

SpecAct == InitAct /\ [][Next]_vars

\* C29: every entry of the user's request list that has an EXECUTE callback has it
\* invoked exactly once, at its arrival time and after the allocation outcome of its
\* arrival group is decided, be the entry a plain Action or a Request, accepted or
\* rejected: a call of EXECUTE happens at the entry's arrival time with the outcome of
\* a Request already decided, and when the run has returned every entry with a
\* callback was called exactly once.
C29_ExecuteOnce ==
  /\ [][\A k \in (Len(last.executed) + 1) .. Len(last'.executed) :
          /\ Req(last'.executed[k]).ARRIVAL = now'
          /\ IsRequest(last'.executed[k]) => last'.executed[k] \in DOMAIN last'.outcome]_vars
  /\ [](pc = "returned" =>
          \A i \in DOMAIN scn.reqs : HasExecute(i) => Count(last.executed, i) = 1)


\* ----------------------------------------------------- ON, guest and placed
\* The positions of the requests of the last arrival group that VMP.allocate rejected.
RejectedNow == {k \in DOMAIN last'.allocations : ~last'.allocations[k]}

\* C30: at every step boundary a VM is ON iff it is in the guest list of some VMM, iff
\* it is a key of the placement map, and the host of the map is the host whose VMM
\* lists it; a rejected VM stays OFF, and an arrival group that is rejected as a whole
\* changes no host's free cores, RAM or GPU blocks.  (Stated as claimed; the code
\* violates it.)
C30_OnIffGuestIffPlaced ==
  /\ [](AtBoundary =>
          \A v \in VMS :
            /\ vm_state[v] = "ON" <=> \E h \in HOSTS : v \in Range(vmm[h].guests)
            /\ vm_state[v] = "ON" <=> v \in DOMAIN vm_pm
            /\ v \in DOMAIN vm_pm =>
                 \A h \in HOSTS : v \in Range(vmm[h].guests) <=> h = vm_pm[v])
  /\ [][(last'.op = "request.arrive" /\ last'.pub0 = published) =>
          /\ \A k \in RejectedNow :
               LET v == Req(OnlyRequests(last'.ev.args)[k]).VM
               IN (/\ vm_state[v] = "OFF"
                   /\ \A j \in DOMAIN last'.allocations :
                        last'.allocations[j] => Req(OnlyRequests(last'.ev.args)[j]).VM # v)
                    => vm_state'[v] = "OFF"
          /\ RejectedNow = DOMAIN last'.allocations =>
               \A h \in HOSTS : /\ vmm'[h].free_cpu = vmm[h].free_cpu
                                /\ vmm'[h].free_ram = vmm[h].free_ram
                                /\ vmm'[h].free_gpu = vmm[h].free_gpu]_vars

====
